---- MODULE Spec2Model ----
(***************************************************************************)
(* Model of the transcript acquisition pipeline of Smart Summarizer        *)
(* (src/main.py): extract_video_id, try_transcript_api,                    *)
(* _extract_with_stable_client, try_ytdlp_subtitles and                    *)
(* extract_transcript_from_youtube.                                        *)
(*                                                                         *)
(* A Python str is a sequence of one-character strings, so that strip(),   *)
(* lower(), "in", join and f-string formatting are computed, not assumed.  *)
(* An Optional[str] is a record [isNone, v].  One behaviour is one call of *)
(* extract_transcript_from_youtube; every upstream call (caption listing,  *)
(* caption fetch, extractor profile attempt, subtitle fetch) is one step   *)
(* whose response is chosen from a bounded set.                            *)
(***************************************************************************)
EXTENDS Integers, Sequences, FiniteSets, TLC

\* ---------------------------------------------------------------- bounds
\* longest caption listing the upstream returns (besides ExampleListing)
MaxListing == 3
\* most timed segments in one fetched caption track
MaxSegs == 2

\* ------------------------------------------------------- program constants
\* {11} in the three patterns of extract_video_id
VideoIdLen == 11
\* english_matches[:3]
MaxEnglishAttempts == 3
\* others[:1]
MaxOtherAttempts == 1

\* ----------------------------------------------------------- Python str
Whitespace == {" ", "\n", "\t"}

None == [isNone |-> TRUE, v |-> <<>>]

Some(s) == [isNone |-> FALSE, v |-> s]

\* Python truthiness of an Optional[str]: None and "" are falsy
Truthy(x) == ~x.isNone /\ x.v /= <<>>

Min(a, b) == IF a <= b THEN a ELSE b

RECURSIVE LStrip(_)
LStrip(s) == IF s /= <<>> /\ Head(s) \in Whitespace THEN LStrip(Tail(s)) ELSE s

RECURSIVE RStrip(_)
RStrip(s) ==
    IF s /= <<>> /\ s[Len(s)] \in Whitespace THEN RStrip(SubSeq(s, 1, Len(s) - 1)) ELSE s

\* str.strip()
Strip(s) == RStrip(LStrip(s))

\* a string with no non-whitespace character
IsBlank(s) == \A i \in 1..Len(s) : s[i] \in Whitespace

UpperToLower ==
    [c \in {"A","B","C","D","E","F","G","H","I","J","K","L","M","N","O","P","Q","R","S",
            "T","U","V","W","X","Y","Z"} |->
        CASE c = "A" -> "a" [] c = "B" -> "b" [] c = "C" -> "c" [] c = "D" -> "d"
          [] c = "E" -> "e" [] c = "F" -> "f" [] c = "G" -> "g" [] c = "H" -> "h"
          [] c = "I" -> "i" [] c = "J" -> "j" [] c = "K" -> "k" [] c = "L" -> "l"
          [] c = "M" -> "m" [] c = "N" -> "n" [] c = "O" -> "o" [] c = "P" -> "p"
          [] c = "Q" -> "q" [] c = "R" -> "r" [] c = "S" -> "s" [] c = "T" -> "t"
          [] c = "U" -> "u" [] c = "V" -> "v" [] c = "W" -> "w" [] c = "X" -> "x"
          [] c = "Y" -> "y" [] c = "Z" -> "z"]

LowerLetters == {UpperToLower[c] : c \in DOMAIN UpperToLower}

\* str.lower()
Lower(s) == [i \in 1..Len(s) |-> IF s[i] \in DOMAIN UpperToLower THEN UpperToLower[s[i]] ELSE s[i]]

\* s[i:i+len(lit)] == lit
HasLit(s, i, lit) ==
    /\ i >= 1
    /\ i + Len(lit) - 1 <= Len(s)
    /\ \A k \in 1..Len(lit) : s[i + k - 1] = lit[k]

\* Python "sub in s"
Contains(s, sub) == \E i \in 1..(Len(s) + 1) : HasLit(s, i, sub)

\* sep.join(parts)
RECURSIVE Join(_, _)
Join(sep, parts) ==
    IF parts = <<>> THEN <<>>
    ELSE IF Len(parts) = 1 THEN parts[1]
    ELSE parts[1] \o sep \o Join(sep, Tail(parts))

\* the indices i of 1..n for which Keep(i), in ascending order
SelectIdx(n, Keep(_)) ==
    LET S == {i \in 1..n : Keep(i)}
    IN  [k \in 1..Cardinality(S) |-> CHOOSE i \in S : Cardinality({j \in S : j <= i}) = k]

\* Python seq[:n]
Take(seq, n) == SubSeq(seq, 1, Min(n, Len(seq)))

\* ------------------------------------------------------ extract_video_id
IdChars ==
    {"0","1","2","3","4","5","6","7","8","9","_","-",
     "a","b","c","d","e","f","g","h","i","j","k","l","m","n","o","p","q","r","s","t","u",
     "v","w","x","y","z",
     "A","B","C","D","E","F","G","H","I","J","K","L","M","N","O","P","Q","R","S","T","U",
     "V","W","X","Y","Z"}

\* [0-9A-Za-z_-]{11} matches at position i
IsIdRun(s, i) ==
    /\ i >= 1
    /\ i + VideoIdLen - 1 <= Len(s)
    /\ \A k \in i..(i + VideoIdLen - 1) : s[k] \in IdChars

\* (?:[&\?#]|$) at position i; $ also matches before a final newline
FollowsId(s, i) ==
    \/ i = Len(s) + 1
    \/ i = Len(s) /\ s[i] = "\n"
    \/ i <= Len(s) /\ s[i] \in {"&", "?", "#"}

\* start of group 1 when pattern 1 matches at position i, else 0
WatchPatAt(s, i) ==
    IF HasLit(s, i, <<"v","=">>) /\ IsIdRun(s, i + 2) /\ FollowsId(s, i + 2 + VideoIdLen)
    THEN i + 2
    ELSE IF HasLit(s, i, <<"/">>) /\ IsIdRun(s, i + 1) /\ FollowsId(s, i + 1 + VideoIdLen)
    THEN i + 1
    ELSE 0

\* start of group 1 when pattern 2 matches at position i, else 0
ShortPatAt(s, i) ==
    IF HasLit(s, i, <<"y","o","u","t","u",".","b","e","/">>) /\ IsIdRun(s, i + 9) THEN i + 9 ELSE 0

\* start of group 1 when the bare pattern matches at position i, else 0
BarePatAt(s, i) == IF IsIdRun(s, i) THEN i ELSE 0

\* re.search: the match at the leftmost position, 0 when there is none
ReSearch(s, PatAt(_, _)) ==
    LET hits == {i \in 1..Len(s) : PatAt(s, i) /= 0}
    IN  IF hits = {} THEN 0
        ELSE PatAt(s, CHOOSE i \in hits : \A j \in hits : i <= j)

Group1(s, g) == SubSeq(s, g, g + VideoIdLen - 1)

InvalidUrl == [ok |-> FALSE, id |-> <<>>]

\* extract_video_id trying the bare 11-character run before the other patterns
extract_video_id_BareFirst(u) ==
    LET m1 == ReSearch(u, WatchPatAt)
        m  == ReSearch(u, ShortPatAt)
        m2 == ReSearch(u, BarePatAt)
    IN  IF m2 /= 0 THEN [ok |-> TRUE, id |-> Group1(u, m2)]
        ELSE IF m1 /= 0 THEN [ok |-> TRUE, id |-> Group1(u, m1)]
        ELSE IF m /= 0 THEN [ok |-> TRUE, id |-> Group1(u, m)]
        ELSE InvalidUrl

\* [ok |-> TRUE, id] or the HTTP 400 "Invalid YouTube URL."
extract_video_id(u) ==
    LET m1 == ReSearch(u, WatchPatAt)
        m  == ReSearch(u, ShortPatAt)
        m2 == ReSearch(u, BarePatAt)
    IN  IF m1 /= 0 THEN [ok |-> TRUE, id |-> Group1(u, m1)]
        ELSE IF m /= 0 THEN [ok |-> TRUE, id |-> Group1(u, m)]
        ELSE IF m2 /= 0 THEN [ok |-> TRUE, id |-> Group1(u, m2)]
        ELSE InvalidUrl

\* request URLs of the pipeline runs: a shortened URL and two strings holding no
\* 11-character run
Urls ==
    { <<"h","t","t","p","s",":","/","/","y","o","u","t","u",".","b","e","/","a","b","c","1","2","3","4","5","6","7","8">>,
      <<"h","t","t","p","s",":","/","/","y","o","u","t","u",".","b","e","/","s","h","o","r","t">>,
      <<>> }

\* 11-character video ids
VideoIds ==
    { <<"a","b","c","1","2","3","4","5","6","7","8">>, <<"d","Q","w","4","w","9","W","g","X","c","Q">>, <<"a","-","b","_","c","-","d","_","e","-","f">>, <<"0","0","0","0","0","0","0","0","0","0","0">>, <<"-","_","-","_","-","_","-","_","-","_","-">> }

\* the canonical watch URL of a video, alone and with further parameters
WatchForms(id) ==
    { <<"h","t","t","p","s",":","/","/","w","w","w",".","y","o","u","t","u","b","e",".","c","o","m","/","w","a","t","c","h","?","v","=">> \o id,
      <<"h","t","t","p","s",":","/","/","w","w","w",".","y","o","u","t","u","b","e",".","c","o","m","/","w","a","t","c","h","?","v","=">> \o id \o <<"&","t","=","1">>,
      <<"h","t","t","p","s",":","/","/","w","w","w",".","y","o","u","t","u","b","e",".","c","o","m","/","w","a","t","c","h","?","f","e","a","t","u","r","e","=","s","h","a","r","e","&","v","=">> \o id }

\* the shortened URL of a video
ShortForms(id) ==
    { <<"h","t","t","p","s",":","/","/","y","o","u","t","u",".","b","e","/">> \o id,
      <<"h","t","t","p","s",":","/","/","y","o","u","t","u",".","b","e","/">> \o id \o <<"?","t","=","5">> }

\* URLs and strings that embed the bare id
EmbeddingForms(id) ==
    { id,
      <<"s","e","e"," ">> \o id \o <<" ","n","o","w">>,
      <<"h","t","t","p","s",":","/","/","w","w","w",".","y","o","u","t","u","b","e",".","c","o","m","/","e","m","b","e","d","/">> \o id,
      <<"h","t","t","p","s",":","/","/","w","w","w",".","y","o","u","t","u","b","e","-","n","o","c","o","o","k","i","e",".","c","o","m","/","e","m","b","e","d","/">> \o id \o <<"/">>,
      <<"h","t","t","p","s",":","/","/","w","w","w",".","y","o","u","t","u","b","e",".","c","o","m","/","o","e","m","b","e","d","?","u","r","l","=","h","t","t","p","%","3","A","/","/","w","w","w",".","y","o","u","t","u","b","e",".","c","o","m","/","w","a","t","c","h","%","3","F","v","%","3","D">> \o id }

UrlFormsOf(id) == WatchForms(id) \cup ShortForms(id) \cup EmbeddingForms(id)

\* strings in which two matchers capture different runs, and strings in which
\* no matcher matches
OtherUrls ==
    { <<"y","o","u","t","u",".","b","e","/","a","b","c","1","2","3","4","5","6","7","8","x","?","v","=","x","y","z","1","2","3","4","5","6","7","8">>,
      <<"y","o","u","t","u","b","e","-","n","o","c","o","o","k","i","e"," ","y","o","u","t","u",".","b","e","/","a","b","c","1","2","3","4","5","6","7","8","x">>,
      <<"v","=","a","b","c","1","2","3","4","5","6","7","8"," ","/","x","y","z","1","2","3","4","5","6","7","8">>,
      <<"h","t","t","p","s",":","/","/","y","o","u","t","u",".","b","e","/","s","h","o","r","t">>,
      <<"n","o","t"," ","a"," ","u","r","l">>,
      <<>> }

\* the video_url values of the runs that stop after line 330
UrlSamples == UNION {UrlFormsOf(id) : id \in VideoIds} \cup OtherUrls

\* ---------------------------------------------------- try_transcript_api
english_variants == { <<"e","n","g","l","i","s","h">>, <<"e","n">>, <<"e","n","-","u","s">>, <<"e","n","-","g","b">> }

\* any(v in ln or v == lc for v in english_variants)
IsEnglishTrack(t) ==
    LET ln == Lower(t.language)
        lc == Lower(t.language_code)
    IN  \E v \in english_variants : Contains(ln, v) \/ v = lc

\* caption tracks the upstream lists: display name and language code
English == [language |-> <<"E","n","g","l","i","s","h">>, language_code |-> <<"e","n">>]

French == [language |-> <<"F","r","e","n","c","h">>, language_code |-> <<"f","r">>]

Hindi == [language |-> <<"H","i","n","d","i">>, language_code |-> <<"h","i">>]

Languages == {English, French, Hindi}

\* the listing of 5 preferred-language and 3 other-language tracks
ExampleListing == <<English, Hindi, English, English, Hindi, English, English, Hindi>>

SeqsUpTo(S, n) == UNION {[1..k -> S] : k \in 0..n}

Listings == SeqsUpTo(Languages, MaxListing) \cup {ExampleListing}

\* positions, in listing order, of the tracks appended to english_matches
english_matches(ts) == SelectIdx(Len(ts), LAMBDA i : IsEnglishTrack(ts[i]))

\* positions, in listing order, of the tracks appended to others
others(ts) == SelectIdx(Len(ts), LAMBDA i : ~IsEnglishTrack(ts[i]))

\* the attempt list without its two caps
AllAttempts_Uncapped(ts) == english_matches(ts) \o others(ts)

\* english_matches[:3] + others[:1], as positions in the listing
AllAttempts(ts) ==
    Take(english_matches(ts), MaxEnglishAttempts) \o Take(others(ts), MaxOtherAttempts)

\* seg.get("text"): a missing key, "", " " or words
SegTexts == {None, Some(<<>>), Some(<<" ">>), Some(<<"h","i">>)}

\* messages of the exceptions a caption fetch or the listing call raises
FetchErrors == { <<"P","a","r","s","e","E","r","r","o","r",":"," ","N","o"," ","e","l","e","m","e","n","t"," ","f","o","u","n","d",":"," ","l","i","n","e"," ","1",","," ","c","o","l","u","m","n"," ","0">>, <<"t","i","m","e","d"," ","o","u","t">> }

\* t.fetch(): raises, or returns a (possibly empty) list of segments
FetchOutcomes ==
    [kind : {"raise"}, msg : FetchErrors, segs : {<<>>}]
    \cup [kind : {"ok"}, msg : {<<>>}, segs : SeqsUpTo(SegTexts, MaxSegs)]

\* the join without the "if seg.get(\"text\")" filter
JoinSegmentTexts_Unfiltered(segs) ==
    Join(<<" ">>, [k \in 1..Len(segs) |-> segs[k].v])

\* " ".join(seg.get("text", "") for seg in fetched if seg.get("text"))
JoinSegmentTexts(segs) ==
    LET kept == SelectIdx(Len(segs), LAMBDA i : Truthy(segs[i]))
    IN  Join(<<" ">>, [k \in 1..Len(kept) |-> segs[kept[k]].v])

\* "no element found" in str(e).lower()
IsEmptyXmlError(msg) == Contains(Lower(msg), <<"n","o"," ","e","l","e","m","e","n","t"," ","f","o","u","n","d">>)

\* the loop body with "if text:" for "if text.strip():"
FetchStep_NoStrip(o) ==
    IF o.kind = "raise"
    THEN IF IsEmptyXmlError(o.msg) THEN [do |-> "abort", text |-> <<>>]
         ELSE [do |-> "next", text |-> <<>>]
    ELSE IF o.segs /= <<>> /\ JoinSegmentTexts(o.segs) /= <<>>
    THEN [do |-> "return", text |-> JoinSegmentTexts(o.segs)]
    ELSE [do |-> "next", text |-> <<>>]

\* the loop body without the "no element found" return
FetchStep_NoAbort(o) ==
    IF o.kind = "raise"
    THEN [do |-> "next", text |-> <<>>]
    ELSE IF o.segs /= <<>> /\ Strip(JoinSegmentTexts(o.segs)) /= <<>>
    THEN [do |-> "return", text |-> JoinSegmentTexts(o.segs)]
    ELSE [do |-> "next", text |-> <<>>]

\* what one pass of the loop body does with the outcome of t.fetch():
\* "return" a text, "abort" (return None) or "next" candidate
FetchStep(o) ==
    IF o.kind = "raise"
    THEN IF IsEmptyXmlError(o.msg) THEN [do |-> "abort", text |-> <<>>]
         ELSE [do |-> "next", text |-> <<>>]
    ELSE IF o.segs /= <<>> /\ Strip(JoinSegmentTexts(o.segs)) /= <<>>
    THEN [do |-> "return", text |-> JoinSegmentTexts(o.segs)]
    ELSE [do |-> "next", text |-> <<>>]

\* ------------------------------------------- _extract_with_stable_client
\* player_client of the three strategies, in list order
strategies == << <<"a","n","d","r","o","i","d">>, <<"i","o","s">>, <<"w","e","b">> >>

\* messages of the exceptions ydl.extract_info raises
ExtractErrors ==
    { <<"H","T","T","P"," ","E","r","r","o","r"," ","4","2","9",":"," ","T","o","o"," ","M","a","n","y"," ","R","e","q","u","e","s","t","s">>,
      <<"S","i","g","n"," ","i","n"," ","t","o"," ","c","o","n","f","i","r","m"," ","y","o","u"," ","a","r","e"," ","n","o","t"," ","a"," ","b","o","t">>,
      <<"E","R","R","O","R",":"," ","[","y","o","u","t","u","b","e","]"," ","P","r","i","v","a","t","e"," ","v","i","d","e","o","."," ","S","i","g","n"," ","i","n"," ","i","f"," ","y","o","u"," ","h","a","v","e"," ","b","e","e","n"," ","g","r","a","n","t","e","d"," ","a","c","c","e","s","s">>,
      <<"V","i","d","e","o"," ","u","n","a","v","a","i","l","a","b","l","e">> }

\* "private video" in error_str or "video unavailable" in error_str
IsPermanent(msg) ==
    LET error_str == Lower(msg)
    IN  Contains(error_str, <<"p","r","i","v","a","t","e"," ","v","i","d","e","o">>) \/ Contains(error_str, <<"v","i","d","e","o"," ","u","n","a","v","a","i","l","a","b","l","e">>)

\* raise Exception("All extraction strategies failed")
AllFailedMsg == <<"A","l","l"," ","e","x","t","r","a","c","t","i","o","n"," ","s","t","r","a","t","e","g","i","e","s"," ","f","a","i","l","e","d">>

\* a value of the info dict: key absent, None, or a str
Absent == [st |-> "absent", v |-> <<>>]

NoneValue == [st |-> "none", v |-> <<>>]

Str(s) == [st |-> "str", v |-> s]

\* a number of the info dict: key absent, None, an int or a float
NoNum == [st |-> "absent", n |-> 0]

NoneNum == [st |-> "none", n |-> 0]

IntNum(n) == [st |-> "int", n |-> n]

FloatNum(n) == [st |-> "float", n |-> n]

\* dict.get(key, default) on a str value
Get(f, default) ==
    IF f.st = "absent" THEN default ELSE IF f.st = "none" THEN None ELSE Some(f.v)

\* dict.get(key, 0) on a number
GetNum(f) == IF f.st = "absent" THEN IntNum(0) ELSE f

\* ----------------------------------------------------- _subtitle_to_plain
Digits == {"0","1","2","3","4","5","6","7","8","9"}

RECURSIVE SplitLines(_)
\* str.splitlines() (line boundary "\n"; no empty last line after a final "\n")
SplitLines(s) ==
    IF s = <<>> THEN <<>>
    ELSE LET brk == {i \in 1..Len(s) : s[i] = "\n"}
         IN  IF brk = {} THEN <<s>>
             ELSE LET i == CHOOSE k \in brk : \A j \in brk : k <= j
                  IN  <<SubSeq(s, 1, i - 1)>> \o SplitLines(SubSeq(s, i + 1, Len(s)))

\* re.match(r"^(\d+|WEBVTT|-->)", ln)
IsCueLine(ln) ==
    \/ ln /= <<>> /\ ln[1] \in Digits
    \/ HasLit(ln, 1, <<"W","E","B","V","T","T">>)
    \/ HasLit(ln, 1, <<"-","-",">">>)

\* the texts t = sg.get("utf8", "").strip() kept by "if t", over all events in order
RECURSIVE EventTexts(_)
EventTexts(events) ==
    IF events = <<>> THEN <<>>
    ELSE LET segs == Head(events)
             kept == SelectIdx(Len(segs), LAMBDA i : Strip(segs[i]) /= <<>>)
         IN  [k \in 1..Len(kept) |-> Strip(segs[kept[k]])] \o EventTexts(Tail(events))

\* the line-based fallback: lines that are non-empty and no cue line, stripped
PlainLines(s) ==
    LET lines == SplitLines(s)
        kept  == SelectIdx(Len(lines), LAMBDA i : lines[i] /= <<>> /\ ~IsCueLine(lines[i]))
    IN  Join(<<" ">>, [k \in 1..Len(kept) |-> Strip(lines[kept[k]])])

\* c.raw is the payload text; c.json is what json.loads makes of it:
\* "error" (raises), "other" (no dict with "events") or "events" with c.events,
\* each event the utf8 texts of its segs
_subtitle_to_plain(c) ==
    LET s == Strip(c.raw)
    IN  IF s = <<>> THEN <<>>
        ELSE IF c.json = "events" /\ EventTexts(c.events) /= <<>>
        THEN Join(<<" ">>, EventTexts(c.events))
        ELSE PlainLines(s)

Text(raw) == [raw |-> raw, json |-> "error", events |-> <<>>]

Json3(raw, events) == [raw |-> raw, json |-> "events", events |-> events]

\* a WebVTT file with one cue
VttFile == Text(<<"W","E","B","V","T","T","\n","\n","1","\n","0","0",":","0","0",":","0","1",".","0","0","0"," ","-","-",">"," ","0","0",":","0","0",":","0","2",".","0","0","0","\n","h","e","l","l","o"," ","w","o","r","l","d","\n">>)

\* a WebVTT file with cue timing and no cue text
VttNoText == Text(<<"W","E","B","V","T","T","\n","\n","1","\n","0","0",":","0","0",":","0","1",".","0","0","0"," ","-","-",">"," ","0","0",":","0","0",":","0","2",".","0","0","0","\n">>)

\* a timed-text JSON payload with two segment texts, one blank
Json3File ==
    Json3(<<"{","\"","e","v","e","n","t","s","\"",":","[","{","\"","s","e","g","s","\"",":","[","{","\"","u","t","f","8","\"",":","\"","h","i","\"","}",",","{","\"","u","t","f","8","\"",":","\""," ","\"","}","]","}",",","{","\"","s","e","g","s","\"",":","[","{","\"","u","t","f","8","\"",":","\"","t","h","e","r","e","\"","}","]","}","]","}">>,
          << << <<"h","i">>, <<" ">> >>, << <<"t","h","e","r","e">> >> >>)

BlankFile == Text(<<" ","\n">>)

\* a segmented playlist listing two segments
Playlist2 == Text(<<"#","E","X","T","M","3","U","\n","#","E","X","T","I","N","F",":","5",",","\n","s","e","g","1",".","v","t","t","\n","#","E","X","T","I","N","F",":","5",",","\n","s","e","g","2",".","v","t","t","\n">>)

\* ---------------------------------------------------- try_ytdlp_subtitles
\* REQUEST_TIMEOUT
REQUEST_TIMEOUT == 20
\* HLS_SEGMENT_LIMIT
HLS_SEGMENT_LIMIT == 30
\* the 20 of min(HLS_SEGMENT_LIMIT, 20)
SegmentCap == 20
\* english_candidates[:3]
MaxEnglishCandidates == 3
\* other_candidates[:2] and list(all_tracks.values())[:2]
MaxOtherCandidates == 2
\* seconds one upstream call may take, besides 0
TimeStep == 8
\* the clock of the direct-subtitle stage is followed up to this many seconds
MaxElapsed == 24

is_english_label(label) ==
    IF label = <<>> THEN FALSE
    ELSE LET lbl == Lower(label)
         IN  \/ Contains(lbl, <<"e","n","g","l","i","s","h">>)
             \/ lbl = <<"e","n">>
             \/ (HasLit(lbl, 1, <<"e","n">>) /\ Len(lbl) >= 4 /\ lbl[3] \in {"-", "_"}
                   /\ \A k \in 4..Len(lbl) : lbl[k] \in LowerLetters)
             \/ HasLit(lbl, 1, <<"e","n">>)
             \/ lbl = <<"e","n","g">>

\* a track entry of the info dict; url "" stands for an entry without "url"
Entry(u) == [url |-> u]

\* a language of a track map: its key and its value, a list of entries or not a list
Lang(label, items) == [lang |-> label, isList |-> TRUE, items |-> items]

NotAList(label) == [lang |-> label, isList |-> FALSE, items |-> <<>>]

Keys(d) == {d[i].lang : i \in 1..Len(d)}

\* {**subs, **auto}: keys in insertion order, the value of auto where both have the key
MergeTracks(subs, auto) ==
    LET FromAuto(l) == auto[CHOOSE j \in 1..Len(auto) : auto[j].lang = l]
        new == SelectIdx(Len(auto), LAMBDA j : auto[j].lang \notin Keys(subs))
    IN  [i \in 1..Len(subs) |->
            IF subs[i].lang \in Keys(auto) THEN FromAuto(subs[i].lang) ELSE subs[i]]
        \o [k \in 1..Len(new) |-> auto[new[k]]]

RECURSIVE ExtendAll(_, _)
\* the entries of the listed languages, concatenated in order
ExtendAll(d, idxs) ==
    IF idxs = <<>> THEN <<>> ELSE d[Head(idxs)].items \o ExtendAll(d, Tail(idxs))

english_candidates(d) ==
    ExtendAll(d, SelectIdx(Len(d), LAMBDA i : d[i].isList /\ is_english_label(d[i].lang)))

other_candidates(d) ==
    ExtendAll(d, SelectIdx(Len(d), LAMBDA i : d[i].isList /\ ~is_english_label(d[i].lang)))

\* the first entry of each of the first two values that are lists
FallbackCandidates(d) ==
    LET first == Take(d, MaxOtherCandidates)
        lists == SelectIdx(Len(first), LAMBDA i : first[i].isList)
    IN  ExtendAll([i \in 1..Len(first) |->
                      [first[i] EXCEPT !.items = Take(first[i].items, 1)]], lists)

\* the candidates list as english_candidates[:3] + other_candidates[:2]
Candidates_PreferredThenOther(subs, auto) ==
    LET all_tracks == MergeTracks(subs, auto)
    IN  Take(english_candidates(all_tracks), MaxEnglishCandidates)
        \o Take(other_candidates(all_tracks), MaxOtherCandidates)

\* the candidates list built from info["subtitles"] and info["automatic_captions"]
Candidates(subs, auto) ==
    LET all_tracks == MergeTracks(subs, auto)
    IN  IF english_candidates(all_tracks) /= <<>>
        THEN Take(english_candidates(all_tracks), MaxEnglishCandidates)
        ELSE IF other_candidates(all_tracks) /= <<>>
        THEN Take(other_candidates(all_tracks), MaxOtherCandidates)
        ELSE FallbackCandidates(all_tracks)

\* the candidate loop without its time check
TimeoutApproaching_Never(elapsed) == FALSE

\* time.time() - start > REQUEST_TIMEOUT * 0.8, in whole seconds
TimeoutApproaching(elapsed) == elapsed * 10 > REQUEST_TIMEOUT * 8

RECURSIVE NextCandidate(_, _, _)
\* the loop head: the first candidate from position i on that is fetched, 0 when the
\* loop ends first (break on the time check, or no candidate left); a candidate
\* without url is skipped
NextCandidate(cands, i, elapsed) ==
    IF i > Len(cands) THEN 0
    ELSE IF TimeoutApproaching(elapsed) THEN 0
    ELSE IF cands[i].url = "" THEN NextCandidate(cands, i + 1, elapsed)
    ELSE i

\* text.lstrip().startswith("#EXTM3U")
IsPlaylist(raw) == HasLit(LStrip(raw), 1, <<"#","E","X","T","M","3","U">>)

\* the playlist lines resolved to segment URLs: non-empty lines not starting with "#"
PlaylistSegments(raw) ==
    LET lines == SplitLines(raw)
        kept  == SelectIdx(Len(lines), LAMBDA i : lines[i] /= <<>> /\ lines[i][1] /= "#")
    IN  [k \in 1..Len(kept) |-> Strip(lines[kept[k]])]

\* segs[:HLS_SEGMENT_LIMIT]
LimitedSegments_ConfiguredLimit(raw) == Take(PlaylistSegments(raw), HLS_SEGMENT_LIMIT)

\* segs[:max_segs] with max_segs = min(HLS_SEGMENT_LIMIT, 20)
LimitedSegments(raw) == Take(PlaylistSegments(raw), Min(HLS_SEGMENT_LIMIT, SegmentCap))

\* payloads a subtitle URL serves
SubtitleFiles == {VttFile, VttNoText, Json3File, BlankFile, Playlist2}

\* payloads a playlist segment serves
SegmentFiles == {VttFile, VttNoText}

\* requests.get: raises, or answers with a status code and a body
HttpOutcomes(files) ==
    {[kind |-> "raise", status |-> 0, body |-> BlankFile]}
    \cup [kind : {"ok"}, status : {404}, body : {BlankFile}]
    \cup [kind : {"ok"}, status : {200}, body : files]

\* what the body of the candidate loop does with the response to requests.get(url):
\* "return" a text, fetch the "segments" of a playlist, or go to the "next" candidate
CandidateStep(o) ==
    IF o.kind = "ok" /\ o.status = 200 /\ Strip(o.body.raw) /= <<>>
    THEN IF IsPlaylist(o.body.raw)
         THEN IF LimitedSegments(o.body.raw) = <<>>
              THEN [do |-> "next", text |-> <<>>]
              ELSE [do |-> "segments", text |-> <<>>]
         ELSE IF Strip(_subtitle_to_plain(o.body)) /= <<>>
         THEN [do |-> "return", text |-> _subtitle_to_plain(o.body)]
         ELSE [do |-> "next", text |-> <<>>]
    ELSE [do |-> "next", text |-> <<>>]

\* a failed segment discarding what was collected before it
SegmentStep_ResetOnFailure(collected, o) ==
    IF o.kind = "ok" /\ o.status = 200 /\ Strip(_subtitle_to_plain(o.body)) /= <<>>
    THEN Append(collected, _subtitle_to_plain(o.body))
    ELSE <<>>

\* collected after the response to requests.get(seg)
SegmentStep(collected, o) ==
    IF o.kind = "ok" /\ o.status = 200 /\ Strip(_subtitle_to_plain(o.body)) /= <<>>
    THEN Append(collected, _subtitle_to_plain(o.body))
    ELSE collected

\* ------------------------------------------------------- metadata texts
\* f"{x}" of an Optional[str]
Fmt(x) == IF x.isNone THEN <<"N","o","n","e">> ELSE x.v

DigitChar == <<"0","1","2","3","4","5","6","7","8","9">>

RECURSIVE IntToStr(_)
\* str(n) for n >= 0
IntToStr(n) == IF n < 10 THEN <<DigitChar[n + 1]>> ELSE IntToStr(n \div 10) \o <<DigitChar[(n % 10) + 1]>>

\* f"{secs:02d}"
TwoDigits(n) == IF n < 10 THEN <<"0">> \o IntToStr(n) ELSE IntToStr(n)

\* f"{n/unit:.1f}": the quotient rounded to one decimal, ties to even
OneDecimal(n, unit) ==
    LET q == (n * 10) \div unit
        r == (n * 10) % unit
        t == IF 2 * r > unit \/ (2 * r = unit /\ q % 2 = 1) THEN q + 1 ELSE q
    IN  IntToStr(t \div 10) \o <<".">> \o IntToStr(t % 10)

\* duration_str; "raise" for a float, which {secs:02d} rejects
DurationStr(duration) ==
    IF duration.st \in {"absent", "none"} \/ duration.n = 0 THEN Some(<<"U","n","k","n","o","w","n">>)
    ELSE IF duration.st = "float" THEN None
    ELSE Some(IntToStr(duration.n \div 60) \o <<":">> \o TwoDigits(duration.n % 60))

ViewStr(view_count) ==
    IF view_count.st \in {"absent", "none"} \/ view_count.n = 0 THEN <<"U","n","k","n","o","w","n"," ","v","i","e","w","s">>
    ELSE IF view_count.n >= 1000000 THEN OneDecimal(view_count.n, 1000000) \o <<"M"," ","v","i","e","w","s">>
    ELSE IF view_count.n >= 1000 THEN OneDecimal(view_count.n, 1000) \o <<"K"," ","v","i","e","w","s">>
    ELSE IntToStr(view_count.n) \o <<" ","v","i","e","w","s">>

\* s[a:b] with 0-based a, b
Slice(s, a, b) == SubSeq(s, a + 1, Min(b, Len(s)))

UploadDateStr(upload_date) ==
    IF Truthy(upload_date) /\ upload_date.v /= <<"U","n","k","n","o","w","n">>
    THEN Some(Slice(upload_date.v, 0, 4) \o <<"-">> \o Slice(upload_date.v, 4, 6) \o <<"-">>
              \o Slice(upload_date.v, 6, 8))
    ELSE upload_date

Disclaimer ==
    <<"N","o","t","e",":"," ","T","r","a","n","s","c","r","i","p","t","/","s","u","b","t","i","t","l","e","s"," ","w","e","r","e"," ","n","o","t"," ","a","v","a","i","l","a","b","l","e"," ","f","o","r"," ","t","h","i","s"," ","v","i","d","e","o","."," ","T","h","i","s"," ","s","u","m","m","a","r","y"," ","i","s"," ","b","a","s","e","d"," ","o","n"," ","t","h","e"," ","v","i","d","e","o"," ","m","e","t","a","d","a","t","a"," ","o","n","l","y",".">>

\* f"Title: {title}\n\nDescription:\n{desc}"
TitleDescText(title, desc) == <<"T","i","t","l","e",":"," ">> \o Fmt(title) \o <<"\n","\n","D","e","s","c","r","i","p","t","i","o","n",":","\n">> \o Fmt(desc)

\* the transcript the title/description fallback leaves for an info dict: the
\* two-field text, "" when the log line raises (title[:50] or len(desc) of None),
\* otherwise transcript as it was (falsy)
MetadataFallback(info, before) ==
    LET title == Get(info.title, Some(<<>>))
        desc  == Get(info.description, Some(<<>>))
    IN  IF Truthy(title) \/ Truthy(desc)
        THEN IF title.isNone \/ desc.isNone THEN Some(<<>>)
             ELSE Some(TitleDescText(title, desc))
        ELSE before

\* fallback_text of the final attempt; None when building it raises
FallbackText(info) ==
    LET title       == Get(info.title, Some(<<"N","o"," ","t","i","t","l","e"," ","a","v","a","i","l","a","b","l","e">>))
        desc        == Get(info.description, Some(<<"N","o"," ","d","e","s","c","r","i","p","t","i","o","n"," ","a","v","a","i","l","a","b","l","e">>))
        uploader    == Get(info.uploader, Some(<<"U","n","k","n","o","w","n">>))
        upload_date == Get(info.upload_date, Some(<<"U","n","k","n","o","w","n">>))
        duration    == DurationStr(GetNum(info.duration))
    IN  IF duration.isNone THEN None
        ELSE Some(<<"V","i","d","e","o"," ","T","i","t","l","e",":"," ">> \o Fmt(title)
                  \o <<"\n","\n","U","p","l","o","a","d","e","r",":"," ">> \o Fmt(uploader)
                  \o <<"\n","D","u","r","a","t","i","o","n",":"," ">> \o duration.v
                  \o <<"\n","V","i","e","w","s",":"," ">> \o ViewStr(GetNum(info.view_count))
                  \o <<"\n","U","p","l","o","a","d"," ","D","a","t","e",":"," ">> \o Fmt(UploadDateStr(upload_date))
                  \o <<"\n","\n","D","e","s","c","r","i","p","t","i","o","n",":","\n">> \o Fmt(desc)
                  \o <<"\n","\n">> \o Disclaimer)

\* detail of the HTTP 400 raised by extract_video_id
InvalidUrlDetail == <<"I","n","v","a","l","i","d"," ","Y","o","u","T","u","b","e"," ","U","R","L",".">>

\* detail of the HTTP 400 raised when every stage failed
ExhaustedDetail ==
    <<"U","n","a","b","l","e"," ","t","o"," ","e","x","t","r","a","c","t"," ","t","r","a","n","s","c","r","i","p","t"," ","o","r"," ","m","e","t","a","d","a","t","a"," ","f","r","o","m"," ","t","h","i","s"," ","v","i","d","e","o","."," ","T","h","i","s"," ","m","a","y"," ","b","e"," ","b","e","c","a","u","s","e",":"," ","1",")"," ","T","h","e"," ","v","i","d","e","o"," ","h","a","s"," ","n","o"," ","s","u","b","t","i","t","l","e","s","/","c","a","p","t","i","o","n","s",","," ","2",")"," ","T","h","e"," ","v","i","d","e","o"," ","i","s"," ","p","r","i","v","a","t","e"," ","o","r"," ","a","g","e","-","r","e","s","t","r","i","c","t","e","d",","," ","3",")"," ","Y","o","u","T","u","b","e"," ","i","s"," ","b","l","o","c","k","i","n","g"," ","a","u","t","o","m","a","t","e","d"," ","a","c","c","e","s","s","."," ","P","l","e","a","s","e"," ","t","r","y"," ","a"," ","d","i","f","f","e","r","e","n","t"," ","v","i","d","e","o",".">>

\* ------------------------------------------------- upstream info dicts
BaseInfo ==
    [title |-> Str(<<"T","a","l","k">>), description |-> Str(<<"A","b","o","u","t">>), uploader |-> Absent,
     duration |-> NoNum, view_count |-> NoNum, upload_date |-> Absent,
     subtitles |-> <<>>, automatic_captions |-> <<>>]

StrFields == {Absent, NoneValue, Str(<<>>), Str(<<"T","a","l","k">>)}

FullInfo ==
    [BaseInfo EXCEPT !.uploader = Str(<<"A","n","n">>), !.duration = IntNum(125),
                     !.view_count = IntNum(2500000), !.upload_date = Str(<<"2","0","2","3","0","6","1","5">>)]

\* info dicts that differ in the metadata fields
MetaInfos ==
    {[BaseInfo EXCEPT !.title = t, !.description = d] : t \in StrFields, d \in StrFields}
    \cup {FullInfo,
          [FullInfo EXCEPT !.duration = FloatNum(125), !.view_count = IntNum(1500)],
          [FullInfo EXCEPT !.duration = NoneNum, !.view_count = IntNum(500),
                           !.upload_date = NoneValue]}

\* (subtitles, automatic_captions) pairs
\* a manual English track and four auto-generated ones under the same key
CappedTracks ==
    << <<Lang(<<"e","n">>, <<Entry("sub/en/1")>>)>>,
       <<Lang(<<"e","n">>, <<Entry("auto/en/1"), Entry("auto/en/2"), Entry("auto/en/3"),
                        Entry("auto/en/4")>>)>> >>

TrackMaps ==
    { << <<>>, <<>> >>,
      << <<Lang(<<"e","n">>, <<Entry("sub/en/1")>>)>>, <<>> >>,
      CappedTracks,
      << <<Lang(<<"f","r">>, <<Entry("sub/fr/1"), Entry("sub/fr/2"), Entry("sub/fr/3")>>)>>,
         <<>> >>,
      << <<Lang(<<"f","r">>, <<Entry("sub/fr/1")>>)>>,
         <<Lang(<<"e","n","-","U","S">>, <<Entry(""), Entry("auto/en/1")>>)>> >>,
      << <<NotAList(<<"e","s">>)>>, <<Lang(<<"l","i","v","e","_","c","h","a","t">>, <<>>)>> >> }

\* info dicts that differ in the track maps
TrackInfos ==
    {[BaseInfo EXCEPT !.subtitles = m[1], !.automatic_captions = m[2]] : m \in TrackMaps}

Infos == MetaInfos \cup TrackInfos

\* ------------------------------------------------------ subtitle servers
\* most segment lines of a playlist served by a scripted upstream
MaxPlaylist == 22

\* seconds try_transcript_api may have taken when try_ytdlp_subtitles starts
CaptionStageDurations == {0, TimeStep}

\* an upstream that may answer every request in every way
AnyUpstream == [kind |-> "any"]

\* the lines after the marker of a playlist of n segments: a tag line, then the
\* segment's URL
PlaylistLines(n) ==
    [i \in 1..(2 * n) |-> IF i % 2 = 1 THEN <<"#","E","X","T","I","N","F",":","5",",">> ELSE <<"s">> \o IntToStr(i \div 2)]

LongPlaylist(n) == Text(Join(<<"\n">>, <<<<"#","E","X","T","M","3","U">>>> \o PlaylistLines(n)) \o <<"\n">>)

Answer(status, body) == [kind |-> "ok", status |-> status, body |-> body]

ConnectionError == [kind |-> "raise", status |-> 0, body |-> BlankFile]

\* how a scripted upstream answers the request for segment k of its playlist
SegmentPatterns == {"text", "fail", "mixed"}

ServedSegment(pattern, k) ==
    LET words  == Answer(200, Text(<<"t">> \o IntToStr(k) \o <<"\n">>))
        broken == IF k % 3 = 0 THEN ConnectionError
                  ELSE IF k % 3 = 1 THEN Answer(404, BlankFile)
                  ELSE Answer(200, VttNoText)
    IN  IF pattern = "text" THEN words
        ELSE IF pattern = "fail" THEN broken
        ELSE IF k % 2 = 0 THEN words ELSE broken

\* upstreams with fixed answers: the first candidate URL serves a playlist of
\* `segments` segments, every later candidate URL serves `later`
ScriptedUpstreams ==
    [kind : {"scripted"}, segments : 0..MaxPlaylist, pattern : SegmentPatterns,
     later : {Answer(200, VttFile), Answer(404, BlankFile)}]

\* a server whose first candidate is a playlist of MaxPlaylist segments, none
\* of which can be fetched, and that has nothing else
LongUpstream ==
    [kind |-> "scripted", segments |-> MaxPlaylist, pattern |-> "fail",
     later |-> Answer(404, BlankFile)]

\* the possible outcomes of requests.get(url) for the candidate at position i
SubtitleResponses(up, i) ==
    IF up.kind = "any" THEN HttpOutcomes(SubtitleFiles)
    ELSE IF i = 1 THEN {Answer(200, LongPlaylist(up.segments))}
    ELSE {up.later}

\* the possible outcomes of requests.get(seg) for the k-th segment of the playlist
SegmentResponses(up, k) ==
    IF up.kind = "any" THEN HttpOutcomes(SegmentFiles)
    ELSE {ServedSegment(up.pattern, k)}

\* -------------------------------------------------------- summarize_youtube
MetadataMarker == <<"N","o","t","e",":"," ","T","r","a","n","s","c","r","i","p","t","/","s","u","b","t","i","t","l","e","s"," ","w","e","r","e"," ","n","o","t"," ","a","v","a","i","l","a","b","l","e">>

MetadataWarning == <<"T","h","i","s"," ","s","u","m","m","a","r","y"," ","i","s"," ","b","a","s","e","d"," ","o","n"," ","v","i","d","e","o"," ","m","e","t","a","d","a","t","a"," ","o","n","l","y"," ","(","n","o"," ","t","r","a","n","s","c","r","i","p","t"," ","a","v","a","i","l","a","b","l","e",")">>

NoContentDetail == <<"N","o"," ","c","o","n","t","e","n","t"," ","c","o","u","l","d"," ","b","e"," ","e","x","t","r","a","c","t","e","d"," ","f","r","o","m"," ","t","h","i","s"," ","v","i","d","e","o","."," ","P","l","e","a","s","e"," ","t","r","y"," ","a"," ","d","i","f","f","e","r","e","n","t"," ","v","i","d","e","o",".">>

\* messages of exceptions summarize_via_gemini lets through
SummaryErrors ==
    { <<"H","T","T","P"," ","E","r","r","o","r"," ","4","2","9",":"," ","T","o","o"," ","M","a","n","y"," ","R","e","q","u","e","s","t","s">>,
      <<"T","o","o"," ","M","a","n","y"," ","R","e","q","u","e","s","t","s","."," ","S","i","g","n"," ","i","n"," ","t","o"," ","c","o","n","t","i","n","u","e">>,
      <<"S","i","g","n"," ","i","n"," ","t","o"," ","c","o","n","f","i","r","m"," ","y","o","u"," ","a","r","e"," ","n","o","t"," ","a"," ","b","o","t">>,
      <<"P","r","i","v","a","t","e"," ","v","i","d","e","o","."," ","S","i","g","n"," ","i","n"," ","i","f"," ","y","o","u"," ","h","a","v","e"," ","a","c","c","e","s","s">>,
      <<"P","r","i","v","a","t","e"," ","v","i","d","e","o">>,
      <<"V","i","d","e","o"," ","u","n","a","v","a","i","l","a","b","l","e">>,
      <<"A","l","l"," ","e","x","t","r","a","c","t","i","o","n"," ","s","t","r","a","t","e","g","i","e","s"," ","f","a","i","l","e","d">>,
      <<"A","P","I"," ","k","e","y"," ","n","o","t"," ","v","a","l","i","d">> }

\* summarize_via_gemini returns a summary or raises
SummaryOutcomes ==
    {[kind |-> "ok", msg |-> <<>>, summary |-> <<"s","u","m","m","a","r","y">>]}
    \cup [kind : {"raise"}, msg : SummaryErrors, summary : {<<>>}]

\* the translation with the private/unavailable test made first
FriendlyMessage_PrivateFirst(msg) ==
    IF Contains(msg, <<"P","r","i","v","a","t","e"," ","v","i","d","e","o">>) \/ Contains(Lower(msg), <<"u","n","a","v","a","i","l","a","b","l","e">>)
    THEN <<"T","h","i","s"," ","v","i","d","e","o"," ","i","s"," ","p","r","i","v","a","t","e",","," ","u","n","a","v","a","i","l","a","b","l","e",","," ","o","r"," ","a","g","e","-","r","e","s","t","r","i","c","t","e","d"," ","a","n","d"," ","c","a","n","n","o","t"," ","b","e"," ","a","c","c","e","s","s","e","d",".">>
    ELSE IF Contains(msg, <<"H","T","T","P"," ","E","r","r","o","r"," ","4","2","9">>) \/ Contains(msg, <<"T","o","o"," ","M","a","n","y"," ","R","e","q","u","e","s","t","s">>)
    THEN <<"Y","o","u","T","u","b","e"," ","i","s"," ","r","a","t","e","-","l","i","m","i","t","i","n","g"," ","r","e","q","u","e","s","t","s","."," ","P","l","e","a","s","e"," ","w","a","i","t"," ","a"," ","f","e","w"," ","m","i","n","u","t","e","s"," ","a","n","d"," ","t","r","y"," ","a","g","a","i","n",".">>
    ELSE IF Contains(Lower(msg), <<"s","i","g","n"," ","i","n">>) \/ Contains(Lower(msg), <<"b","o","t">>)
    THEN <<"Y","o","u","T","u","b","e"," ","d","e","t","e","c","t","e","d"," ","a","u","t","o","m","a","t","e","d"," ","a","c","c","e","s","s","."," ","T","h","i","s"," ","u","s","u","a","l","l","y"," ","r","e","s","o","l","v","e","s"," ","i","t","s","e","l","f"," ","a","f","t","e","r"," ","a"," ","f","e","w"," ","m","i","n","u","t","e","s","."," ","T","r","y"," ","a","g","a","i","n"," ","s","h","o","r","t","l","y",","," ","o","r"," ","u","s","e"," ","a"," ","d","i","f","f","e","r","e","n","t"," ","v","i","d","e","o",".">>
    ELSE IF Contains(msg, <<"A","l","l"," ","e","x","t","r","a","c","t","i","o","n"," ","s","t","r","a","t","e","g","i","e","s"," ","f","a","i","l","e","d">>)
    THEN <<"U","n","a","b","l","e"," ","t","o"," ","a","c","c","e","s","s"," ","t","h","i","s"," ","v","i","d","e","o","."," ","Y","o","u","T","u","b","e"," ","m","a","y"," ","b","e"," ","b","l","o","c","k","i","n","g"," ","a","u","t","o","m","a","t","e","d"," ","r","e","q","u","e","s","t","s","."," ","P","l","e","a","s","e"," ","t","r","y"," ","a","g","a","i","n"," ","i","n"," ","a"," ","f","e","w"," ","m","i","n","u","t","e","s"," ","o","r"," ","u","s","e"," ","a"," ","d","i","f","f","e","r","e","n","t"," ","v","i","d","e","o",".">>
    ELSE msg

\* lines 842-854: the message of the HTTP 500 answer for an exception message
FriendlyMessage(msg) ==
    IF Contains(msg, <<"H","T","T","P"," ","E","r","r","o","r"," ","4","2","9">>) \/ Contains(msg, <<"T","o","o"," ","M","a","n","y"," ","R","e","q","u","e","s","t","s">>)
    THEN <<"Y","o","u","T","u","b","e"," ","i","s"," ","r","a","t","e","-","l","i","m","i","t","i","n","g"," ","r","e","q","u","e","s","t","s","."," ","P","l","e","a","s","e"," ","w","a","i","t"," ","a"," ","f","e","w"," ","m","i","n","u","t","e","s"," ","a","n","d"," ","t","r","y"," ","a","g","a","i","n",".">>
    ELSE IF Contains(Lower(msg), <<"s","i","g","n"," ","i","n">>) \/ Contains(Lower(msg), <<"b","o","t">>)
    THEN <<"Y","o","u","T","u","b","e"," ","d","e","t","e","c","t","e","d"," ","a","u","t","o","m","a","t","e","d"," ","a","c","c","e","s","s","."," ","T","h","i","s"," ","u","s","u","a","l","l","y"," ","r","e","s","o","l","v","e","s"," ","i","t","s","e","l","f"," ","a","f","t","e","r"," ","a"," ","f","e","w"," ","m","i","n","u","t","e","s","."," ","T","r","y"," ","a","g","a","i","n"," ","s","h","o","r","t","l","y",","," ","o","r"," ","u","s","e"," ","a"," ","d","i","f","f","e","r","e","n","t"," ","v","i","d","e","o",".">>
    ELSE IF Contains(msg, <<"P","r","i","v","a","t","e"," ","v","i","d","e","o">>) \/ Contains(Lower(msg), <<"u","n","a","v","a","i","l","a","b","l","e">>)
    THEN <<"T","h","i","s"," ","v","i","d","e","o"," ","i","s"," ","p","r","i","v","a","t","e",","," ","u","n","a","v","a","i","l","a","b","l","e",","," ","o","r"," ","a","g","e","-","r","e","s","t","r","i","c","t","e","d"," ","a","n","d"," ","c","a","n","n","o","t"," ","b","e"," ","a","c","c","e","s","s","e","d",".">>
    ELSE IF Contains(msg, <<"V","i","d","e","o"," ","u","n","a","v","a","i","l","a","b","l","e">>)
    THEN <<"T","h","i","s"," ","v","i","d","e","o"," ","i","s"," ","n","o","t"," ","a","v","a","i","l","a","b","l","e","."," ","I","t"," ","m","a","y"," ","h","a","v","e"," ","b","e","e","n"," ","d","e","l","e","t","e","d"," ","o","r"," ","m","a","d","e"," ","p","r","i","v","a","t","e",".">>
    ELSE IF Contains(msg, <<"A","l","l"," ","e","x","t","r","a","c","t","i","o","n"," ","s","t","r","a","t","e","g","i","e","s"," ","f","a","i","l","e","d">>)
    THEN <<"U","n","a","b","l","e"," ","t","o"," ","a","c","c","e","s","s"," ","t","h","i","s"," ","v","i","d","e","o","."," ","Y","o","u","T","u","b","e"," ","m","a","y"," ","b","e"," ","b","l","o","c","k","i","n","g"," ","a","u","t","o","m","a","t","e","d"," ","r","e","q","u","e","s","t","s","."," ","P","l","e","a","s","e"," ","t","r","y"," ","a","g","a","i","n"," ","i","n"," ","a"," ","f","e","w"," ","m","i","n","u","t","e","s"," ","o","r"," ","u","s","e"," ","a"," ","d","i","f","f","e","r","e","n","t"," ","v","i","d","e","o",".">>
    ELSE msg

NoResponse == [kind |-> "none"]

HttpError(code, detail) == [kind |-> "error", status_code |-> code, detail |-> detail]

\* the JSON body of lines 830-838, without the fields that echo the request
Success(summary, length, is_metadata_only) ==
    [kind |-> "ok", success |-> TRUE, summary |-> summary, transcript_length |-> length,
     metadata_only |-> is_metadata_only,
     warning |-> IF is_metadata_only THEN Some(MetadataWarning) ELSE None]

\* lines 814-856 after extract_transcript_from_youtube has ended with r, when
\* summarize_via_gemini ends with g
EndpointAnswer(r, g) ==
    IF r.kind = "raised" THEN HttpError(r.status_code, r.detail)
    ELSE IF r.kind = "failed" THEN HttpError(500, FriendlyMessage(r.msg))
    ELSE IF Strip(r.text) = <<>> THEN HttpError(400, NoContentDetail)
    ELSE IF g.kind = "raise" THEN HttpError(500, FriendlyMessage(g.msg))
    ELSE Success(g.summary, Len(r.text), Contains(r.text, MetadataMarker))

\* ------------------------------------------- inputs of _subtitle_to_plain
\* the most lines of a sampled text file and the most events of a sampled
\* timed-text JSON payload
MaxLines == 3

MaxEvents == 2

\* a marker line, a cue index, a cue timing, a cue text, an empty and a blank line
LineSamples ==
    { <<"W","E","B","V","T","T">>, <<"1">>, <<"0","0",":","0","0",":","0","1",".","0","0","0"," ","-","-",">"," ","0","0",":","0","0",":","0","2",".","0","0","0">>, <<"h","e","l","l","o"," ","w","o","r","l","d">>, <<>>, <<" ">> }

TextFiles ==
    {Text(Join(<<"\n">>, lines)) :
        lines \in UNION {[1..n -> LineSamples] : n \in 0..MaxLines}}

\* the utf8 texts of the segs of one event
SegsSamples ==
    { <<>>, << <<>> >>, << <<" ">> >>, << <<"h","i">> >>, << <<"h","i">>, <<" ">> >>, << <<" ","y","o"," ">>, <<"t","h","e","r","e">> >> }

\* json.dumps of {"events": [{"segs": [{"utf8": t}, ...]}, ...]}
RECURSIVE JsonList(_, _, _)
JsonList(items, k, acc) ==
    IF k > Len(items) THEN acc
    ELSE JsonList(items, k + 1, IF k = 1 THEN items[k] ELSE acc \o <<","," ">> \o items[k])

JsonSegs(segs) ==
    <<"{","\"","s","e","g","s","\"",":"," ","[">>
    \o JsonList([i \in 1..Len(segs) |-> <<"{","\"","u","t","f","8","\"",":"," ","\"">> \o segs[i] \o <<"\"","}">>], 1, <<>>)
    \o <<"]","}">>

JsonEvents(events) ==
    <<"{","\"","e","v","e","n","t","s","\"",":"," ","[">>
    \o JsonList([i \in 1..Len(events) |-> JsonSegs(events[i])], 1, <<>>)
    \o <<"]","}">>

JsonFiles ==
    {Json3(JsonEvents(events), events) :
        events \in UNION {[1..n -> SegsSamples] : n \in 0..MaxEvents}}

\* JSON that is no object with events
OtherJsonFiles ==
    {[raw |-> <<"1","2","3">>, json |-> "other", events |-> <<>>],
     [raw |-> <<"{","\"","e","r","r","o","r","\"",":"," ","\"","n","o"," ","c","a","p","t","i","o","n","s","\"","}">>, json |-> "other", events |-> <<>>]}

PlainInputs == TextFiles \cup JsonFiles \cup OtherJsonFiles

\* --------------------------------------------------- summarize_via_gemini
MAX_SAFE_CHUNK == 80000

overlap == 300

max_chunks == 2

\* the cut of line 434 and the cut of line 564
NoKeyLimit == 800

DegradedLimit == 1500

\* the longest sampled text, in fifths of MAX_SAFE_CHUNK
MaxFifths == 11

\* a text is kept by its lengths: the whitespace it starts with, what
\* text.strip() keeps of it, the whitespace it ends with
InputText(lead, body, trail) == [lead |-> lead, body |-> body, trail |-> trail]

TextLen(t) == t.lead + t.body + t.trail

TextLengths ==
    {k * (MAX_SAFE_CHUNK \div 5) + d : k \in 0..MaxFifths, d \in {0, 1}}
    \cup {max_chunks * MAX_SAFE_CHUNK - overlap + d : d \in {0, 1}}

Pads == {<<0, 0>>, <<1, 2>>}

SumTexts == {InputText(p[1], n, p[2]) : p \in Pads, n \in TextLengths}

\* the summary_type values a caller sends
SummaryTypes ==
    {None, Some(<<"s","h","o","r","t">>), Some(<<"b","u","l","l","e","t">>), Some(<<" ","D","e","t","a","i","l","e","d"," ">>),
     Some(<<"c","o","m","p","r","e","h","e","n","s","i","v","e">>), Some(<<"t","l","d","r">>)}

\* a literal string, the first n characters of the text as handed in (followed by
\* "..." when it was longer), and text[from : from + len] of the stripped text
Literal(chars) == [src |-> "chars", chars |-> chars]

RawHead(t, n) == [src |-> "raw", len |-> Min(n, TextLen(t)), dots |-> TextLen(t) > n]

TextSlice(from, len) == [src |-> "text", from |-> from, len |-> len]

\* line 436
NormalType(st) == Lower(Strip(IF Truthy(st) THEN st.v ELSE <<"s","h","o","r","t">>))

\* lines 437-439
EffectiveType(st) ==
    IF NormalType(st) \in {<<"s","h","o","r","t">>, <<"b","u","l","l","e","t">>, <<"d","e","t","a","i","l","e","d">>} THEN NormalType(st)
    ELSE <<"s","h","o","r","t">>

\* lines 468-545: the prompt of a chunk call and its max_tokens
ChunkPrompt(summary_type) ==
    IF summary_type = <<"b","u","l","l","e","t">> THEN [prompt |-> "bullet", max_tokens |-> 2500]
    ELSE IF summary_type = <<"c","o","m","p","r","e","h","e","n","s","i","v","e">>
    THEN [prompt |-> "comprehensive", max_tokens |-> 3000]
    ELSE IF summary_type = <<"d","e","t","a","i","l","e","d">> THEN [prompt |-> "detailed", max_tokens |-> 3000]
    ELSE [prompt |-> "short", max_tokens |-> 1200]

\* lines 575-633: the prompt of the merge call
MergePrompt(summary_type) ==
    IF summary_type = <<"s","h","o","r","t">> THEN [prompt |-> "short", max_tokens |-> 3500]
    ELSE IF summary_type = <<"b","u","l","l","e","t">> THEN [prompt |-> "bullet", max_tokens |-> 3500]
    ELSE [prompt |-> "detailed", max_tokens |-> 3500]

\* chunking without the overlap: the second chunk starts where the first ends
Chunks_NoOverlap(text_len) ==
    IF text_len <= MAX_SAFE_CHUNK THEN <<TextSlice(0, text_len)>>
    ELSE <<TextSlice(0, MAX_SAFE_CHUNK),
           TextSlice(MAX_SAFE_CHUNK, Min(MAX_SAFE_CHUNK, text_len - MAX_SAFE_CHUNK))>>

\* lines 456-460: the loop over range(0, text_len, step) from offset i on
RECURSIVE ChunkLoop(_, _, _)
ChunkLoop(i, text_len, chunks) ==
    IF i >= text_len THEN chunks
    ELSE LET more == Append(chunks, TextSlice(i, Min(MAX_SAFE_CHUNK, text_len - i)))
         IN  IF Len(more) >= max_chunks THEN more
             ELSE ChunkLoop(i + (MAX_SAFE_CHUNK - overlap), text_len, more)

\* lines 452-460
Chunks(text_len) ==
    IF text_len <= MAX_SAFE_CHUNK THEN <<TextSlice(0, text_len)>>
    ELSE ChunkLoop(0, text_len, <<>>)

\* str(resp) of a response object
ResponseRepr == <<"r","e","s","p","o","n","s","e",":","\n","G","e","n","e","r","a","t","e","C","o","n","t","e","n","t","R","e","s","p","o","n","s","e","(","d","o","n","e","=","T","r","u","e",")">>

\* model.generate_content raises, or returns None, or returns a response object
\* with the text it carries
GeminiOutcomes ==
    {[kind |-> "raise", text |-> <<>>], [kind |-> "none", text |-> <<>>]}
    \cup [kind : {"object"}, text : {<<>>, <<"#","#"," ","O","n","e","\n","-"," ","a">>, <<" ","t","w","o"," ">>}]

\* lines 69-81, for a response that is None or an object with a str text
_safe_gemini_text(resp) ==
    IF resp.kind = "none" THEN <<>>
    ELSE IF Strip(resp.text) /= <<>> THEN Strip(resp.text)
    ELSE Strip(ResponseRepr)

\* lines 661-760: the branch that lays the text out
Layout(summary_type) ==
    IF summary_type = <<"b","u","l","l","e","t">> THEN "bullet"
    ELSE IF summary_type \in {<<"d","e","t","a","i","l","e","d">>, <<"c","o","m","p","r","e","h","e","n","s","i","v","e">>} THEN "sections"
    ELSE "paragraphs"

\* text.strip() of line 654 is empty
NoTextLeft(t) == IF t.src = "chars" THEN Strip(t.chars) = <<>> ELSE t.len = 0

\* lines 652-760: "" for a blank text, else the HTML of the text in the layout
\* of the mode
format_summary_output(t, summary_type) ==
    IF NoTextLeft(t) THEN Literal(<<>>)
    ELSE [src |-> "html", of |-> IF t.src = "chars" THEN Literal(Strip(t.chars)) ELSE t,
          layout |-> Layout(summary_type)]

\* line 432
NoTextSummary == Literal(<<"N","o"," ","t","e","x","t"," ","a","v","a","i","l","a","b","l","e"," ","t","o"," ","s","u","m","m","a","r","i","z","e",".">>)

\* ------------------------------------------------------------- the state
VARIABLES
    url,           \* video_url of the request
    pc,            \* where the run stands
    vid,           \* the resolved video id
    transcript,    \* transcript of extract_transcript_from_youtube
    api,           \* locals of try_transcript_api
    ext,           \* locals of _extract_with_stable_client and who called it
    subs,          \* locals of try_ytdlp_subtitles
    ret,           \* what the function that just ended hands to its caller
    result,        \* how extract_transcript_from_youtube ended
    stages,        \* the stages started so far, with what each produced
    extractCalls,  \* invocations of _extract_with_stable_client so far
    permanent,     \* the extractor has raised a private/unavailable error
    upstream,      \* what the subtitle servers answer in this run
    response,      \* how the /summarize/youtube endpoint answered
    sum            \* locals of summarize_via_gemini

vars == <<url, pc, vid, transcript, api, ext, subs, ret, result, stages, extractCalls,
          permanent, upstream, response, sum>>

\* fetched logs the candidates fetched so far; segs is the local "fetched", the
\* list the latest t.fetch() returned
ApiIdle ==
    [transcripts |-> <<>>, all_attempts |-> <<>>, idx |-> 0, fetched |-> <<>>,
     segs |-> <<>>]

ExtIdle == [caller |-> "none", idx |-> 0, last_error |-> None, tried |-> <<>>]

\* start is the reading of line 223 in seconds since the request arrived, elapsed is
\* time.time() - start; subs and auto are the two track maps of the info dict;
\* playlist is the text of the playlist being resolved and requested the segment
\* URLs fetched for it
SubsIdle ==
    [candidates |-> <<>>, idx |-> 0, start |-> 0, elapsed |-> 0, segs |-> <<>>, seg |-> 0,
     collected |-> <<>>, fetched |-> <<>>, segFetched |-> 0, subs |-> <<>>, auto |-> <<>>,
     playlist |-> <<>>, requested |-> <<>>]

RetIdle == [kind |-> "idle"]

RetValue(x) == [kind |-> "value", val |-> x]

RetInfo(i) == [kind |-> "info", info |-> i]

RetRaise(m) == [kind |-> "raise", msg |-> m]

Running == [kind |-> "running"]

Returned(s) == [kind |-> "returned", text |-> s]

Raised(code, detail) == [kind |-> "raised", status_code |-> code, detail |-> detail]

\* extract_transcript_from_youtube ended with an exception that is no HTTPException
Failed(msg) == [kind |-> "failed", msg |-> msg]

\* calls logs the generate_content calls made so far with what each answered
SumIdle ==
    [key |-> FALSE, text |-> InputText(0, 0, 0), requested |-> None, summary_type |-> <<>>,
     chunks |-> <<>>, idx |-> 0, partials |-> <<>>, calls |-> <<>>]

\* the request has arrived and nothing has run
Arrived ==
    /\ pc = "start"
    /\ vid = <<>>
    /\ transcript = None
    /\ api = ApiIdle
    /\ ext = ExtIdle
    /\ subs = SubsIdle
    /\ ret = RetIdle
    /\ result = Running
    /\ stages = <<>>
    /\ extractCalls = 0
    /\ permanent = FALSE
    /\ response = NoResponse
    /\ sum = SumIdle

Init ==
    /\ url \in Urls
    /\ upstream \in {AnyUpstream, LongUpstream}
    /\ Arrived

\* runs that end after the video id is resolved, over the sampled URLs
InitResolve ==
    /\ url \in UrlSamples
    /\ upstream = AnyUpstream
    /\ Arrived

\* runs against a scripted upstream, from the entry of the candidate loop of
\* try_ytdlp_subtitles: the caption stage gave nothing and the extractor returned
\* the info of CappedTracks
InitHls ==
    /\ url = <<"h","t","t","p","s",":","/","/","y","o","u","t","u",".","b","e","/","a","b","c","1","2","3","4","5","6","7","8">>
    /\ upstream \in ScriptedUpstreams
    /\ pc = "subs_fetch"
    /\ vid = <<"a","b","c","1","2","3","4","5","6","7","8">>
    /\ transcript = None
    /\ api = ApiIdle
    /\ ext = ExtIdle
    /\ subs = [SubsIdle EXCEPT !.candidates = Candidates(CappedTracks[1], CappedTracks[2]),
                               !.idx = 1,
                               !.subs = CappedTracks[1],
                               !.auto = CappedTracks[2]]
    /\ ret = RetIdle
    /\ result = Running
    /\ stages = <<[name |-> "api", out |-> "none"], [name |-> "subs", out |-> "running"]>>
    /\ extractCalls = 1
    /\ permanent = FALSE
    /\ response = NoResponse
    /\ sum = SumIdle

\* the stage now running has ended and produced out ("text" or "none")
EndStage(out) == [stages EXCEPT ![Len(stages)].out = out]

BeginStage(st, name) == Append(st, [name |-> name, out |-> "running"])

\* a call of _extract_with_stable_client(video_url, download=False) by caller
CallExtractor(caller) ==
    /\ ext' = [caller |-> caller, idx |-> 1, last_error |-> None, tried |-> <<>>]
    /\ extractCalls' = extractCalls + 1
    /\ ret' = RetIdle
    /\ pc' = "extract"

\* return x / raise of extract_transcript_from_youtube
Finish(r) ==
    /\ result' = r
    /\ pc' = "done"
    /\ ret' = RetIdle
    /\ ext' = ExtIdle
    /\ UNCHANGED extractCalls

\* lines 347-353 raising the exhaustion error where the final attempt starts
ReturnOrFinalAttempt_NoFinal(x, st) ==
    IF Truthy(x) /\ Strip(x.v) /= <<>>
    THEN Finish(Returned(x.v)) /\ stages' = st
    ELSE Finish(Raised(400, ExhaustedDetail)) /\ stages' = st

\* lines 347-353: return the transcript if it has text, else start the final attempt
ReturnOrFinalAttempt(x, st) ==
    IF Truthy(x) /\ Strip(x.v) /= <<>>
    THEN Finish(Returned(x.v)) /\ stages' = st
    ELSE /\ CallExtractor("final")
         /\ stages' = BeginStage(st, "final")
         /\ UNCHANGED result

\* lines 334-337: with no transcript yet, start the title/description fallback
MetadataOrReturn(x, st) ==
    IF ~Truthy(x)
    THEN /\ CallExtractor("meta")
         /\ stages' = BeginStage(st, "meta")
         /\ UNCHANGED result
    ELSE ReturnOrFinalAttempt(x, st)

\* lines 332-333 without the "if not transcript" guard
SubtitlesOrReturn_Unguarded(x, st) ==
    /\ CallExtractor("subs")
    /\ stages' = BeginStage(st, "subs")
    /\ UNCHANGED result

\* lines 332-333: with no transcript yet, call try_ytdlp_subtitles
SubtitlesOrReturn(x, st) ==
    IF ~Truthy(x)
    THEN /\ CallExtractor("subs")
         /\ stages' = BeginStage(st, "subs")
         /\ UNCHANGED result
    ELSE MetadataOrReturn(x, st)

Out(x) == IF Truthy(x) THEN "text" ELSE "none"

\* ----------------------------------------------------------- the actions
\* line 330: vid = extract_video_id(video_url), then the call of try_transcript_api
Start ==
    /\ pc = "start"
    /\ LET r == extract_video_id(url)
       IN  IF r.ok
           THEN /\ vid' = r.id
                /\ pc' = "api_list"
                /\ stages' = BeginStage(stages, "api")
                /\ UNCHANGED result
           ELSE /\ result' = Raised(400, InvalidUrlDetail)
                /\ pc' = "done"
                /\ UNCHANGED <<vid, stages>>
    /\ UNCHANGED <<url, sum, upstream, response, transcript, api, ext, subs, ret, extractCalls, permanent>>

\* lines 100-117: the listing call raises, or the attempt list is built from it
ListTranscripts ==
    /\ pc = "api_list"
    /\ \/ /\ ret' = RetValue(None)
          /\ pc' = "api_ret"
          /\ UNCHANGED api
       \/ \E ts \in Listings :
            /\ api' = [transcripts |-> ts, all_attempts |-> AllAttempts(ts), idx |-> 1,
                       fetched |-> <<>>, segs |-> <<>>]
            /\ IF AllAttempts(ts) = <<>>
               THEN ret' = RetValue(None) /\ pc' = "api_ret"
               ELSE ret' = RetIdle /\ pc' = "api_fetch"
    /\ UNCHANGED <<url, sum, upstream, response, vid, transcript, ext, subs, result, stages, extractCalls, permanent>>

\* lines 119-132: one pass of the loop over all_attempts
FetchTranscript ==
    /\ pc = "api_fetch"
    /\ \E o \in FetchOutcomes :
         LET step == FetchStep(o)
             seen == Append(api.fetched,
                            [track |-> api.all_attempts[api.idx], kind |-> o.kind,
                             msg |-> o.msg])
             got  == IF o.kind = "ok" THEN o.segs ELSE api.segs
         IN  IF step.do = "return"
             THEN /\ api' = [api EXCEPT !.fetched = seen, !.segs = got]
                  /\ ret' = RetValue(Some(step.text))
                  /\ pc' = "api_ret"
             ELSE IF step.do = "abort" \/ api.idx = Len(api.all_attempts)
             THEN /\ api' = [api EXCEPT !.fetched = seen, !.segs = got]
                  /\ ret' = RetValue(None)
                  /\ pc' = "api_ret"
             ELSE /\ api' = [api EXCEPT !.fetched = seen, !.segs = got, !.idx = api.idx + 1]
                  /\ ret' = RetIdle
                  /\ pc' = "api_fetch"
    /\ UNCHANGED <<url, sum, upstream, response, vid, transcript, ext, subs, result, stages, extractCalls, permanent>>

\* lines 331-333: transcript = try_transcript_api(...) and what follows it
AfterTranscriptApi ==
    /\ pc = "api_ret"
    /\ transcript' = ret.val
    /\ api' = ApiIdle
    /\ SubtitlesOrReturn(ret.val, EndStage(Out(ret.val)))
    /\ \E b \in CaptionStageDurations :
         subs' = IF Truthy(ret.val) THEN subs ELSE [SubsIdle EXCEPT !.start = b]
    /\ UNCHANGED <<url, sum, upstream, response, vid, permanent>>

\* ydl.extract_info under one strategy: raises, returns nothing, or returns an info dict
ProfileOutcomes ==
    [kind : {"raise"}, msg : ExtractErrors, info : {BaseInfo}]
    \cup [kind : {"falsy"}, msg : {<<>>}, info : {BaseInfo}]
    \cup [kind : {"info"}, msg : {<<>>}, info : Infos]

\* the loop body without the private/unavailable re-raise
ExtractStep_NoReraise(idx, last_error, o) ==
    IF o.kind = "info"
    THEN [do |-> "return", last_error |-> last_error, msg |-> <<>>]
    ELSE LET le == IF o.kind = "raise" THEN Some(o.msg) ELSE last_error
         IN  IF idx < Len(strategies)
             THEN [do |-> "next", last_error |-> le, msg |-> <<>>]
             ELSE IF ~le.isNone
             THEN [do |-> "raise", last_error |-> le, msg |-> le.v]
             ELSE [do |-> "raise", last_error |-> le, msg |-> AllFailedMsg]

\* the loop body keeping the first error in last_error instead of the latest
ExtractStep_FirstError(idx, last_error, o) ==
    IF o.kind = "info"
    THEN [do |-> "return", last_error |-> last_error, msg |-> <<>>]
    ELSE IF o.kind = "raise" /\ IsPermanent(o.msg)
    THEN [do |-> "raise", last_error |-> Some(o.msg), msg |-> o.msg]
    ELSE LET le == IF o.kind = "raise" /\ last_error.isNone THEN Some(o.msg) ELSE last_error
         IN  IF idx < Len(strategies)
             THEN [do |-> "next", last_error |-> le, msg |-> <<>>]
             ELSE IF ~le.isNone
             THEN [do |-> "raise", last_error |-> le, msg |-> le.v]
             ELSE [do |-> "raise", last_error |-> le, msg |-> AllFailedMsg]

\* lines 176-201: one pass of the loop over strategies at position idx, and the
\* lines after the loop when it was the last pass
ExtractStep(idx, last_error, o) ==
    IF o.kind = "info"
    THEN [do |-> "return", last_error |-> last_error, msg |-> <<>>]
    ELSE IF o.kind = "raise" /\ IsPermanent(o.msg)
    THEN [do |-> "raise", last_error |-> Some(o.msg), msg |-> o.msg]
    ELSE LET le == IF o.kind = "raise" THEN Some(o.msg) ELSE last_error
         IN  IF idx < Len(strategies)
             THEN [do |-> "next", last_error |-> le, msg |-> <<>>]
             ELSE IF ~le.isNone
             THEN [do |-> "raise", last_error |-> le, msg |-> le.v]
             ELSE [do |-> "raise", last_error |-> le, msg |-> AllFailedMsg]

\* seconds an upstream call may add to the clock of the direct-subtitle stage
Durations(elapsed) == {dt \in {0, TimeStep} : elapsed + dt <= MaxElapsed}

\* one strategy of _extract_with_stable_client is tried
ExtractAttempt ==
    /\ pc = "extract"
    /\ \E o \in ProfileOutcomes :
         LET step == ExtractStep(ext.idx, ext.last_error, o)
             seen == Append(ext.tried,
                            [client |-> strategies[ext.idx], kind |-> o.kind, msg |-> o.msg])
         IN  /\ ext' = [ext EXCEPT !.tried = seen, !.last_error = step.last_error,
                                   !.idx = IF step.do = "next" THEN ext.idx + 1 ELSE ext.idx]
             /\ pc' = IF step.do = "next" THEN "extract" ELSE "extract_ret"
             /\ ret' = IF step.do = "return" THEN RetInfo(o.info)
                       ELSE IF step.do = "raise" THEN RetRaise(step.msg)
                       ELSE RetIdle
             /\ permanent' = (permanent \/ (step.do = "raise" /\ IsPermanent(step.msg)))
    /\ \E dt \in Durations(subs.elapsed) :
         /\ ext.caller /= "subs" => dt = 0
         /\ subs' = [subs EXCEPT !.elapsed = subs.elapsed + dt]
    /\ UNCHANGED <<url, sum, upstream, response, vid, transcript, api, result, stages, extractCalls>>

\* try_ytdlp_subtitles returns x
SubsReturn(x) == ret' = RetValue(x) /\ pc' = "subs_ret"

\* lines 236-270 without the except clause of line 321: the extractor's error
\* leaves try_ytdlp_subtitles and the pipeline
BuildCandidates_NoExcept ==
    /\ pc = "extract_ret"
    /\ ext.caller = "subs"
    /\ IF ret.kind = "raise"
       THEN /\ result' = Raised(500, ret.msg)
            /\ pc' = "done"
            /\ ret' = RetIdle
            /\ ext' = ExtIdle
            /\ UNCHANGED subs
       ELSE LET cands == Candidates(ret.info.subtitles, ret.info.automatic_captions)
                n     == NextCandidate(cands, 1, subs.elapsed)
            IN  /\ subs' = [subs EXCEPT !.candidates = cands, !.idx = n,
                                         !.subs = ret.info.subtitles,
                                         !.auto = ret.info.automatic_captions]
                /\ ext' = ExtIdle
                /\ UNCHANGED result
                /\ IF n = 0 THEN SubsReturn(None)
                   ELSE ret' = RetIdle /\ pc' = "subs_fetch"
    /\ UNCHANGED <<url, sum, upstream, response, vid, transcript, api, stages, extractCalls, permanent>>

\* lines 236-270: the extractor raised (return None), or the candidates are built
\* from its info and the loop over them is entered
BuildCandidates ==
    /\ pc = "extract_ret"
    /\ ext.caller = "subs"
    /\ ext' = ExtIdle
    /\ IF ret.kind = "raise"
       THEN SubsReturn(None) /\ UNCHANGED subs
       ELSE LET cands == Candidates(ret.info.subtitles, ret.info.automatic_captions)
                n     == NextCandidate(cands, 1, subs.elapsed)
            IN  /\ subs' = [subs EXCEPT !.candidates = cands, !.idx = n,
                                         !.subs = ret.info.subtitles,
                                         !.auto = ret.info.automatic_captions]
                /\ IF n = 0 THEN SubsReturn(None)
                   ELSE ret' = RetIdle /\ pc' = "subs_fetch"
    /\ UNCHANGED <<url, sum, upstream, response, vid, transcript, api, result, stages, extractCalls, permanent>>

\* lines 266-318: requests.get of the candidate at subs.idx and what the loop body
\* does with the response, up to the next request
FetchSubtitle ==
    /\ pc = "subs_fetch"
    /\ \E o \in SubtitleResponses(upstream, subs.idx), dt \in Durations(subs.elapsed) :
         LET step == CandidateStep(o)
             now  == subs.elapsed + dt
             n    == NextCandidate(subs.candidates, subs.idx + 1, now)
             seen == Append(subs.fetched, subs.idx)
         IN  IF step.do = "return"
             THEN /\ subs' = [subs EXCEPT !.elapsed = now, !.fetched = seen]
                  /\ SubsReturn(Some(step.text))
             ELSE IF step.do = "segments"
             THEN /\ subs' = [subs EXCEPT !.elapsed = now, !.fetched = seen,
                                          !.segs = LimitedSegments(o.body.raw),
                                          !.seg = 1, !.collected = <<>>,
                                          !.playlist = o.body.raw, !.requested = <<>>]
                  /\ ret' = RetIdle
                  /\ pc' = "subs_seg"
             ELSE /\ subs' = [subs EXCEPT !.elapsed = now, !.fetched = seen, !.idx = n]
                  /\ IF n = 0 THEN SubsReturn(None)
                     ELSE ret' = RetIdle /\ pc' = "subs_fetch"
    /\ UNCHANGED <<url, sum, upstream, response, vid, transcript, api, ext, result, stages, extractCalls, permanent>>

\* lines 296-309: requests.get of the segment at subs.seg; after the last segment
\* the collected texts are returned, or the next candidate is tried
FetchSegment ==
    /\ pc = "subs_seg"
    /\ \E o \in SegmentResponses(upstream, subs.seg), dt \in Durations(subs.elapsed) :
         LET got == SegmentStep(subs.collected, o)
             now == subs.elapsed + dt
             n   == NextCandidate(subs.candidates, subs.idx + 1, now)
             s1  == [subs EXCEPT !.elapsed = now, !.collected = got,
                                 !.segFetched = subs.segFetched + 1,
                                 !.requested = Append(subs.requested, subs.segs[subs.seg])]
         IN  IF subs.seg < Len(subs.segs)
             THEN /\ subs' = [s1 EXCEPT !.seg = subs.seg + 1]
                  /\ ret' = RetIdle
                  /\ pc' = "subs_seg"
             ELSE IF got /= <<>>
             THEN /\ subs' = s1
                  /\ SubsReturn(Some(Join(<<" ">>, got)))
             ELSE /\ subs' = [s1 EXCEPT !.idx = n, !.segs = <<>>, !.seg = 0]
                  /\ IF n = 0 THEN SubsReturn(None)
                     ELSE ret' = RetIdle /\ pc' = "subs_fetch"
    /\ UNCHANGED <<url, sum, upstream, response, vid, transcript, api, ext, result, stages, extractCalls, permanent>>

\* lines 333-337: transcript = try_ytdlp_subtitles(video_url) and what follows it
AfterSubtitles ==
    /\ pc = "subs_ret"
    /\ transcript' = ret.val
    /\ subs' = SubsIdle
    /\ MetadataOrReturn(ret.val, EndStage(Out(ret.val)))
    /\ UNCHANGED <<url, sum, upstream, response, vid, api, permanent>>

\* lines 337-353: the title/description fallback after its extractor call
AfterMetadataExtract ==
    /\ pc = "extract_ret"
    /\ ext.caller = "meta"
    /\ LET x == IF ret.kind = "raise" THEN Some(<<>>)
                ELSE MetadataFallback(ret.info, transcript)
       IN  /\ transcript' = x
           /\ ReturnOrFinalAttempt(x, EndStage(Out(x)))
    /\ UNCHANGED <<url, sum, upstream, response, vid, api, subs, permanent>>

\* the final attempt without the try of line 351: the extractor's error
\* leaves extract_transcript_from_youtube
AfterFinalExtract_Unprotected ==
    /\ pc = "extract_ret"
    /\ ext.caller = "final"
    /\ LET x == IF ret.kind = "raise" THEN None ELSE FallbackText(ret.info)
       IN  IF ret.kind = "raise"
           THEN Finish(Failed(ret.msg)) /\ stages' = EndStage("none")
           ELSE IF Truthy(x) /\ Strip(x.v) /= <<>>
           THEN Finish(Returned(x.v)) /\ stages' = EndStage("text")
           ELSE Finish(Raised(400, ExhaustedDetail)) /\ stages' = EndStage("none")
    /\ UNCHANGED <<url, sum, upstream, response, vid, transcript, api, subs, permanent>>

\* the final attempt made once more when it gave nothing
AfterFinalExtract_Retry ==
    /\ pc = "extract_ret"
    /\ ext.caller = "final"
    /\ LET x == IF ret.kind = "raise" THEN None ELSE FallbackText(ret.info)
       IN  IF Truthy(x) /\ Strip(x.v) /= <<>>
           THEN Finish(Returned(x.v)) /\ stages' = EndStage("text")
           ELSE IF extractCalls < 4
           THEN /\ CallExtractor("final")
                /\ stages' = BeginStage(EndStage("none"), "final")
                /\ UNCHANGED result
           ELSE Finish(Raised(400, ExhaustedDetail)) /\ stages' = EndStage("none")
    /\ UNCHANGED <<url, sum, upstream, response, vid, transcript, api, subs, permanent>>

\* lines 353-411: the final attempt after its extractor call
AfterFinalExtract ==
    /\ pc = "extract_ret"
    /\ ext.caller = "final"
    /\ LET x == IF ret.kind = "raise" THEN None ELSE FallbackText(ret.info)
       IN  IF Truthy(x) /\ Strip(x.v) /= <<>>
           THEN Finish(Returned(x.v)) /\ stages' = EndStage("text")
           ELSE Finish(Raised(400, ExhaustedDetail)) /\ stages' = EndStage("none")
    /\ UNCHANGED <<url, sum, upstream, response, vid, transcript, api, subs, permanent>>

\* lines 814-856: the endpoint's answer once the pipeline has ended
Respond ==
    /\ pc = "done"
    /\ \E g \in SummaryOutcomes :
         /\ response' = EndpointAnswer(result, g)
         /\ ret' = IF result.kind /= "returned" \/ Strip(result.text) = <<>> THEN ret
                   ELSE IF g.kind = "raise" THEN RetRaise(g.msg)
                   ELSE RetValue(g.summary)
    /\ pc' = "responded"
    /\ UNCHANGED <<url, sum, upstream, vid, transcript, api, ext, subs, result, stages,
                   extractCalls, permanent>>

\* a call of summarize_via_gemini with GEMINI_KEY configured or not
InitSum ==
    /\ url = <<"h","t","t","p","s",":","/","/","y","o","u","t","u",".","b","e","/","a","b","c","1","2","3","4","5","6","7","8">>
    /\ upstream = AnyUpstream
    /\ pc = "sum_start"
    /\ vid = <<>>
    /\ transcript = None
    /\ api = ApiIdle
    /\ ext = ExtIdle
    /\ subs = SubsIdle
    /\ ret = RetIdle
    /\ result = Running
    /\ stages = <<>>
    /\ extractCalls = 0
    /\ permanent = FALSE
    /\ response = NoResponse
    /\ \E key \in BOOLEAN, text \in SumTexts, st \in SummaryTypes :
         sum = [SumIdle EXCEPT !.key = key, !.text = text, !.requested = st]

SumReturn(x) ==
    /\ ret' = RetValue(x)
    /\ pc' = "sum_ret"

\* lines 431-462: the early returns, the mode, the client and the chunks
SumBegin ==
    /\ pc = "sum_start"
    /\ IF TextLen(sum.text) = 0 THEN SumReturn(NoTextSummary) /\ UNCHANGED sum
       ELSE IF ~sum.key THEN SumReturn(RawHead(sum.text, NoKeyLimit)) /\ UNCHANGED sum
       ELSE \/ \E msg \in SummaryErrors :
                 /\ ret' = RetRaise(msg)
                 /\ pc' = "sum_ret"
                 /\ sum' = [sum EXCEPT !.summary_type = EffectiveType(sum.requested)]
            \/ /\ sum' = [sum EXCEPT !.summary_type = EffectiveType(sum.requested),
                                      !.chunks = Chunks(sum.text.body),
                                      !.idx = 1]
               /\ pc' = "sum_chunk"
               /\ UNCHANGED ret
    /\ UNCHANGED <<url, upstream, response, vid, transcript, api, ext, subs, result, stages,
                   extractCalls, permanent>>

\* lines 466-569: one pass of the chunk loop, and after the last pass the
\* returns of lines 561-569
SumChunk ==
    /\ pc = "sum_chunk"
    /\ \E resp \in GeminiOutcomes :
         LET call == [call |-> "chunk", idx |-> sum.idx,
                      prompt |-> ChunkPrompt(sum.summary_type).prompt,
                      max_tokens |-> ChunkPrompt(sum.summary_type).max_tokens,
                      answer |-> resp]
             partials == IF resp.kind /= "raise" /\ Strip(_safe_gemini_text(resp)) /= <<>>
                         THEN Append(sum.partials, _safe_gemini_text(resp))
                         ELSE sum.partials
         IN  /\ sum' = [sum EXCEPT !.calls = Append(@, call), !.partials = partials,
                                   !.idx = @ + 1]
             /\ IF sum.idx < Len(sum.chunks) THEN UNCHANGED <<pc, ret>>
                ELSE IF partials = <<>>
                THEN SumReturn(format_summary_output(
                         TextSlice(0, Min(DegradedLimit, sum.text.body)), <<"s","h","o","r","t">>))
                ELSE IF Len(partials) = 1
                THEN SumReturn(format_summary_output(Literal(partials[1]), sum.summary_type))
                ELSE pc' = "sum_merge" /\ UNCHANGED ret
    /\ UNCHANGED <<url, upstream, response, vid, transcript, api, ext, subs, result, stages,
                   extractCalls, permanent>>

\* lines 572-649: the merge call and the three returns after it
SumMerge ==
    /\ pc = "sum_merge"
    /\ \E resp \in GeminiOutcomes :
         LET call == [call |-> "merge", idx |-> 0,
                      prompt |-> MergePrompt(sum.summary_type).prompt,
                      max_tokens |-> MergePrompt(sum.summary_type).max_tokens,
                      answer |-> resp]
             final_summary == Strip(_safe_gemini_text(resp))
         IN  /\ sum' = [sum EXCEPT !.calls = Append(@, call)]
             /\ IF resp.kind = "raise"
                THEN SumReturn(format_summary_output(
                         Literal(Join(<<"\n","\n">>, sum.partials)), sum.summary_type))
                ELSE IF final_summary /= <<>>
                THEN SumReturn(format_summary_output(Literal(final_summary), sum.summary_type))
                ELSE SumReturn(format_summary_output(
                         Literal(Join(<<"\n","\n">>,
                                      SubSeq(sum.partials, 1, Min(3, Len(sum.partials))))),
                         sum.summary_type))
    /\ UNCHANGED <<url, upstream, response, vid, transcript, api, ext, subs, result, stages,
                   extractCalls, permanent>>

\* a call of _subtitle_to_plain with the text a subtitle server answered
InitPlain ==
    /\ url = <<"h","t","t","p","s",":","/","/","y","o","u","t","u",".","b","e","/","a","b","c","1","2","3","4","5","6","7","8">>
    /\ upstream \in [kind : {"payload"}, body : PlainInputs]
    /\ pc = "plain_start"
    /\ vid = <<"a","b","c","1","2","3","4","5","6","7","8">>
    /\ transcript = None
    /\ api = ApiIdle
    /\ ext = ExtIdle
    /\ subs = SubsIdle
    /\ ret = RetIdle
    /\ result = Running
    /\ stages = <<[name |-> "api", out |-> "none"], [name |-> "subs", out |-> "running"]>>
    /\ extractCalls = 1
    /\ permanent = FALSE
    /\ response = NoResponse
    /\ sum = SumIdle

\* lines 203-218
SubtitleToPlain ==
    /\ pc = "plain_start"
    /\ ret' = RetValue(_subtitle_to_plain(upstream.body))
    /\ pc' = "plain_ret"
    /\ UNCHANGED <<url, sum, upstream, response, vid, transcript, api, ext, subs, result,
                   stages, extractCalls, permanent>>

Next ==
    \/ Start
    \/ ListTranscripts
    \/ FetchTranscript
    \/ AfterTranscriptApi
    \/ ExtractAttempt
    \/ BuildCandidates
    \/ FetchSubtitle
    \/ FetchSegment
    \/ AfterSubtitles
    \/ AfterMetadataExtract
    \/ AfterFinalExtract
    \/ Respond

Spec == Init /\ [][Next]_vars

\* line 330 alone
NextResolve == Start

SpecResolve == InitResolve /\ [][NextResolve]_vars

\* the candidate loop of try_ytdlp_subtitles alone
NextHls ==
    \/ FetchSubtitle
    \/ FetchSegment

SpecHls == InitHls /\ [][NextHls]_vars

\* summarize_via_gemini alone
NextSum ==
    \/ SumBegin
    \/ SumChunk
    \/ SumMerge

SpecSum == InitSum /\ [][NextSum]_vars

\* _subtitle_to_plain alone
NextPlain == SubtitleToPlain

SpecPlain == InitPlain /\ [][NextPlain]_vars

\* ============================================================ properties
StageOrder == <<"api", "subs", "meta", "final">>

\* C1: the stages start in the order caption API, direct subtitles,
\* title/description fallback, full-details metadata; a stage is started only
\* when every earlier stage produced no text, so nothing runs after a stage that
\* yielded text; and when try_transcript_api returned text the extractor is
\* never invoked in the run.
C1_StagesInOrderUntilFirstText ==
    /\ Len(stages) <= Len(StageOrder)
    /\ \A i \in 1..Len(stages) : stages[i].name = StageOrder[i]
    /\ \A i \in 1..(Len(stages) - 1) : stages[i].out = "none"
    /\ (stages /= <<>> /\ stages[1].out = "text") => (extractCalls = 0 /\ pc \in {"done", "responded"})
    /\ extractCalls > 0 => (Len(stages) >= 2 /\ stages[1].out = "none")

\* the caption API returned text and the run ended on it without an extractor call
C1_Witness ==
    /\ result.kind = "returned"
    /\ Len(stages) = 1
    /\ stages[1] = [name |-> "api", out |-> "text"]
    /\ extractCalls = 0

\* C2: when the caption-API stage and the direct-subtitle stage produced no text
\* and the extractor returned metadata, the text the pipeline returns contains
\* the metadata-only disclaimer.
C2_MetadataTextCarriesDisclaimer ==
    (/\ result.kind = "returned"
     /\ Len(stages) >= 3
     /\ stages[1].out = "none"
     /\ stages[2].out = "none")
    => Contains(result.text, Disclaimer)

\* C3: after the extractor has raised a private/unavailable error, the pipeline
\* invokes the extractor for no further stage.
C3_NoExtractorCallAfterPermanentError == ~(permanent /\ pc = "extract")

\* C4: what try_transcript_api, try_ytdlp_subtitles and the pipeline return as
\* text has a non-whitespace character; a stage without text returns None.
C4_ReturnedTextNeverBlank ==
    /\ pc \in {"api_ret", "subs_ret"} => (ret.val.isNone \/ ~IsBlank(ret.val.v))
    /\ result.kind = "returned" => ~IsBlank(result.text)

\* the direct-subtitle stage returned a text and the pipeline returned it
C4_Witness ==
    /\ result.kind = "returned"
    /\ Len(stages) = 2
    /\ stages[2] = [name |-> "subs", out |-> "text"]

IsExhaustion(r) == r.kind = "raised" /\ r.status_code = 400 /\ r.detail = ExhaustedDetail

\* C5: with a resolvable video id the exhaustion error is raised only after all
\* four stages ran and each produced no text, and every other run returns text.
C5_ExhaustionOnlyAfterFourStages ==
    /\ IsExhaustion(result) =>
         /\ Len(stages) = 4
         /\ \A i \in 1..4 : stages[i] = [name |-> StageOrder[i], out |-> "none"]
    /\ (pc = "done" /\ vid /= <<>> /\ ~IsExhaustion(result)) => result.kind = "returned"

\* all four stages ran without text and the exhaustion error was raised
C5_Witness == IsExhaustion(result) /\ Len(stages) = 4 /\ extractCalls = 3

\* C6: a failure inside a stage never leaves the pipeline as that error: the
\* stage ends without a result and the next stage is started; the pipeline
\* raises only the invalid-URL error and the exhaustion error.
C6_StageFailuresAreDemoted ==
    [][/\ result'.kind = "raised" =>
            /\ result'.status_code = 400
            /\ result'.detail \in {InvalidUrlDetail, ExhaustedDetail}
       /\ (pc = "extract_ret" /\ ret.kind = "raise" /\ ext.caller = "subs") =>
            (pc' = "subs_ret" /\ ret' = RetValue(None))
       /\ (pc \in {"api_ret", "subs_ret"} /\ ret.val.isNone) =>
            (/\ pc' = "extract"
             /\ ext'.caller = (IF pc = "api_ret" THEN "subs" ELSE "meta")
             /\ result' = Running)
       /\ (pc = "extract_ret" /\ ret.kind = "raise" /\ ext.caller = "meta") =>
            (pc' = "extract" /\ ext'.caller = "final" /\ result' = Running)
       /\ (pc = "extract_ret" /\ ret.kind = "raise" /\ ext.caller = "final") =>
            IsExhaustion(result')
       /\ pc \in {"api_list", "api_fetch", "extract", "subs_fetch", "subs_seg"} =>
            result' = Running]_vars

\* the extractor raised a private/unavailable error in one stage and the pipeline
\* still returned the text of a later stage
C6_Witness == permanent /\ result.kind = "returned"

C7_Order == << <<"a","n","d","r","o","i","d">>, <<"i","o","s">>, <<"w","e","b">> >>

C7_IsPermanentMsg(m) ==
    Contains(Lower(m), <<"p","r","i","v","a","t","e"," ","v","i","d","e","o">>) \/ Contains(Lower(m), <<"v","i","d","e","o"," ","u","n","a","v","a","i","l","a","b","l","e">>)

C8_AllFailedTransiently ==
    /\ pc = "extract_ret"
    /\ \A i \in 1..Len(ext.tried) :
         /\ ext.tried[i].kind /= "info"
         /\ ~(ext.tried[i].kind = "raise" /\ C7_IsPermanentMsg(ext.tried[i].msg))

\* C8 as stated: when every profile fails and no failure is permanent, the
\* extractor raises, and what it raises is the error of the last profile attempted.
C8_RaisesErrorOfLastProfile ==
    C8_AllFailedTransiently =>
        /\ ret.kind = "raise"
        /\ ext.tried[Len(ext.tried)].kind = "raise"
        /\ ret.msg = ext.tried[Len(ext.tried)].msg

\* C8 amended: when every profile fails and no failure is permanent, the
\* extractor raises (it returns no info); what it raises is the latest error any
\* profile raised, and the generic "All extraction strategies failed" error when
\* no profile raised (every profile returned no info).
C8_RaisesLatestErrorOrGeneric ==
    C8_AllFailedTransiently =>
        LET raisers == {i \in 1..Len(ext.tried) : ext.tried[i].kind = "raise"}
        IN  /\ ret.kind = "raise"
            /\ Len(ext.tried) = 3
            /\ raisers = {} => ret.msg = <<"A","l","l"," ","e","x","t","r","a","c","t","i","o","n"," ","s","t","r","a","t","e","g","i","e","s"," ","f","a","i","l","e","d">>
            /\ raisers /= {} =>
                 ret.msg = ext.tried[CHOOSE i \in raisers : \A j \in raisers : j <= i].msg

\* two profiles raised different transient errors, the last returned no info, and
\* the call raised the second profile's error
C8_Witness ==
    /\ C8_AllFailedTransiently
    /\ ext.tried[1].kind = "raise"
    /\ ext.tried[2].kind = "raise"
    /\ ext.tried[1].msg /= ext.tried[2].msg
    /\ ext.tried[3].kind = "falsy"
    /\ ret = RetRaise(ext.tried[2].msg)

\* C9: the attempt list is the first min(3, #preferred) preferred tracks in
\* listing order followed by the first min(1, #other) other track; the listing
\* of 5 preferred and 3 other tracks gives 4 candidates, 3 preferred then 1
\* other; and only tracks of the list are fetched, in list order.
C9_AttemptListIsBounded ==
    LET ts   == api.transcripts
        att  == api.all_attempts
        pref == {i \in 1..Len(ts) : IsEnglishTrack(ts[i])}
        oth  == (1..Len(ts)) \ pref
        np   == IF Cardinality(pref) < 3 THEN Cardinality(pref) ELSE 3
        no   == IF Cardinality(oth) < 1 THEN Cardinality(oth) ELSE 1
    IN  /\ Len(att) = np + no
        /\ \A k \in 1..np : att[k] \in pref /\ Cardinality({i \in pref : i < att[k]}) = k - 1
        /\ \A k \in (np + 1)..(np + no) : att[k] \in oth /\ \A i \in oth : att[k] <= i
        /\ Len(api.fetched) <= Len(att)
        /\ \A j \in 1..Len(api.fetched) : api.fetched[j].track = att[j]
        /\ ts = ExampleListing => att = <<1, 3, 4, 2>>

\* the listing of 5 preferred and 3 other tracks, all 4 candidates fetched
C9_Witness == api.transcripts = ExampleListing /\ Len(api.fetched) = 4

C10_IsEmptyPayloadMsg(m) == Contains(Lower(m), <<"n","o"," ","e","l","e","m","e","n","t"," ","f","o","u","n","d">>)

\* C10: a candidate fetch failing with "no element found" ends try_transcript_api
\* with None at once, no later candidate being fetched; after any other failure
\* of a candidate the next candidate of the list is fetched; and the abort ends
\* only the caption stage: the direct-subtitle stage is started next.
C10_EmptyPayloadAbortsCaptionStageOnly ==
    /\ [](\A j \in 1..Len(api.fetched) :
            LET f == api.fetched[j]
            IN  /\ (f.kind = "raise" /\ C10_IsEmptyPayloadMsg(f.msg)) =>
                     (j = Len(api.fetched) /\ pc = "api_ret" /\ ret = RetValue(None))
                /\ (f.kind = "raise" /\ ~C10_IsEmptyPayloadMsg(f.msg)
                    /\ j < Len(api.all_attempts)) =>
                     \/ Len(api.fetched) > j
                     \/ (pc = "api_fetch" /\ api.idx = j + 1))
    /\ [][(/\ pc = "api_ret"
           /\ api.fetched /= <<>>
           /\ api.fetched[Len(api.fetched)].kind = "raise"
           /\ C10_IsEmptyPayloadMsg(api.fetched[Len(api.fetched)].msg))
          => (/\ pc' = "extract"
              /\ ext'.caller = "subs"
              /\ stages'[Len(stages')].name = "subs"
              /\ result' = Running)]_vars

\* the first of several candidates failed with the empty-payload error and the
\* fetcher returned None with the other candidates unfetched
C10_Witness ==
    /\ pc = "api_ret"
    /\ Len(api.fetched) = 1
    /\ Len(api.all_attempts) > 1
    /\ api.fetched[1].kind = "raise"
    /\ C10_IsEmptyPayloadMsg(api.fetched[1].msg)
    /\ ret = RetValue(None)

\* ------------------------------------------------------------------ C11
\* the texts of the segments that have a non-empty text, in segment order
RECURSIVE C11_NonEmptyTexts(_)
C11_NonEmptyTexts(segs) ==
    IF segs = <<>> THEN <<>>
    ELSE IF Head(segs).isNone \/ Head(segs).v = <<>> THEN C11_NonEmptyTexts(Tail(segs))
    ELSE <<Head(segs).v>> \o C11_NonEmptyTexts(Tail(segs))

\* texts put one after the other with one space between neighbours
RECURSIVE C11_SpaceJoined(_)
C11_SpaceJoined(parts) ==
    IF parts = <<>> THEN <<>>
    ELSE IF Tail(parts) = <<>> THEN Head(parts)
    ELSE Head(parts) \o <<" ">> \o C11_SpaceJoined(Tail(parts))

\* one step of the caption stage's loop, seen from outside
C11_FetchPass ==
    LET i       == api.idx
        e       == api'.fetched[Len(api'.fetched)]
        text    == C11_SpaceJoined(C11_NonEmptyTexts(api'.segs))
        textful == e.kind = "ok" /\ ~IsBlank(text)
    IN  /\ api'.fetched = Append(api.fetched, e)
        /\ Len(api'.fetched) = i
        /\ e.track = api.all_attempts[i]
        /\ textful => pc' = "api_ret" /\ ret' = RetValue(Some(text))
        /\ (e.kind = "ok" /\ ~textful /\ i < Len(api.all_attempts))
              => pc' = "api_fetch" /\ api'.idx = i + 1
        /\ (pc' = "api_ret" /\ Truthy(ret'.val)) => textful

\* C11: try_transcript_api fetches the candidates in attempt-list order; the
\* first candidate whose non-empty segment texts, joined by single spaces in
\* segment order, are not blank ends the loop and that joined text is the
\* return value; nothing is fetched after it; a candidate whose fetch gives no
\* segments or only empty ones is followed by a fetch of the next candidate.
C11_FirstTextfulCandidateIsReturned ==
    [][ /\ pc = "api_fetch" => C11_FetchPass
        /\ (pc /= "api_fetch" /\ api'.fetched /= api.fetched) => api' = ApiIdle ]_vars

\* the second candidate returned text after the first was fetched without
\* giving any, and an empty segment of the second was left out of the join
C11_Witness ==
    /\ pc = "api_ret"
    /\ Truthy(ret.val)
    /\ Len(api.fetched) = 2
    /\ api.fetched[1].kind = "ok"
    /\ Len(api.segs) = 2
    /\ \E k \in 1..2 : ~Truthy(api.segs[k])

\* ------------------------------------------------------------------ C12
\* the track's language name or its language code is one of the English variants
C12_IsEnglishVariant(t) ==
    \/ Lower(t.language) \in english_variants
    \/ Lower(t.language_code) \in english_variants

\* C12: the caption fetcher puts a track in the preferred group only when its
\* language name or code is an English variant, and every other track in the
\* 'other' group; when the listing is one non-English track, the attempt list
\* is that track in the 'other' slot and its non-blank text is returned.
C12_OnlyEnglishIsPreferred ==
    LET ts == api.transcripts
        en == english_matches(ts)
        ot == others(ts)
    IN  ts /= <<>> =>
          /\ \A k \in 1..Len(en) : C12_IsEnglishVariant(ts[en[k]])
          /\ \A i \in 1..Len(ts) :
                ~C12_IsEnglishVariant(ts[i]) => \E k \in 1..Len(ot) : ot[k] = i
          /\ (Len(ts) = 1 /\ ~C12_IsEnglishVariant(ts[1])) =>
                /\ api.all_attempts = <<1>>
                /\ ot = <<1>>
                /\ (pc = "api_ret" /\ api.fetched[1].kind = "ok"
                      /\ ~IsBlank(C11_SpaceJoined(C11_NonEmptyTexts(api.segs))))
                     => Truthy(ret.val)

\* ------------------------------------------------------------------ C13
\* the entries of the merged track maps classified English, and the others
C13_Preferred == english_candidates(MergeTracks(subs.subs, subs.auto))

C13_Other == other_candidates(MergeTracks(subs.subs, subs.auto))

\* seq starts with the first n elements of from, or with all of them if fewer
C13_FirstOf(seq, from, n) ==
    /\ Len(seq) >= Min(n, Len(from))
    /\ \A k \in 1..Min(n, Len(from)) : seq[k] = from[k]

\* C13 as stated: the candidate list of the direct-subtitle stage is up to 3
\* preferred entries followed by up to 2 other-language entries, and holds up
\* to 2 entries of any language only when both groups are empty.
C13_PreferredThenOther ==
    LET c == subs.candidates
        p == Min(3, Len(C13_Preferred))
    IN  IF C13_Preferred = <<>> /\ C13_Other = <<>> THEN Len(c) <= 2
        ELSE /\ Len(c) = p + Min(2, Len(C13_Other))
             /\ C13_FirstOf(c, C13_Preferred, 3)
             /\ C13_FirstOf(SubSeq(c, p + 1, Len(c)), C13_Other, 2)

\* C13 amended: the candidate list is the first up to 3 preferred entries when
\* there is any preferred entry; only when there is none it is the first up to
\* 2 other-language entries; when both groups are empty it is empty.  Only
\* listed candidates are fetched, so no other-language entry is fetched in a
\* stage that has a preferred entry.
C13_PreferredElseOther ==
    LET c == subs.candidates
    IN  /\ C13_Preferred /= <<>> =>
              Len(c) = Min(3, Len(C13_Preferred)) /\ C13_FirstOf(c, C13_Preferred, 3)
        /\ (C13_Preferred = <<>> /\ C13_Other /= <<>>) =>
              Len(c) = Min(2, Len(C13_Other)) /\ C13_FirstOf(c, C13_Other, 2)
        /\ (C13_Preferred = <<>> /\ C13_Other = <<>>) => c = <<>>
        /\ \A k \in 1..Len(subs.fetched) : subs.fetched[k] \in 1..Len(c)

\* the stage ended without text after fetching its preferred candidates, with
\* an other-language entry in the pool that was never a candidate
C13_Witness ==
    /\ pc = "subs_ret"
    /\ ~Truthy(ret.val)
    /\ C13_Preferred /= <<>>
    /\ C13_Other /= <<>>
    /\ subs.fetched /= <<>>
    /\ \A k \in 1..Len(subs.candidates) :
          \A j \in 1..Len(C13_Other) : subs.candidates[k] /= C13_Other[j]

\* ------------------------------------------------------------------ C14
\* the entries of the lists of a track map
C14_Entries(map) ==
    UNION {{map[i].items[j] : j \in 1..Len(map[i].items)} :
             i \in {i \in 1..Len(map) : map[i].isList}}

\* C14: every track entry of the 'subtitles' map and of the
\* 'automatic_captions' map is in the candidate pool of the direct-subtitle
\* stage, also when both maps have the same language key.
C14_PoolKeepsBothNamespaces ==
    LET pool == C13_Preferred \o C13_Other
    IN  \A e \in C14_Entries(subs.subs) \cup C14_Entries(subs.auto) :
          \E k \in 1..Len(pool) : pool[k] = e

RECURSIVE C16_NonCommentLines(_)
C16_NonCommentLines(lines) ==
    IF lines = <<>> THEN <<>>
    ELSE IF Head(lines) = <<>> \/ Head(Head(lines)) = "#" THEN C16_NonCommentLines(Tail(lines))
    ELSE <<Strip(Head(lines))>> \o C16_NonCommentLines(Tail(lines))

\* C16: for a subtitle body that begins with '#EXTM3U' at most
\* min(HLS_SEGMENT_LIMIT, 20) = 20 segment fetches are issued, and they are
\* for the first non-comment lines of the playlist, in playlist order.
C16_AtMostTwentySegmentFetches ==
    subs.playlist /= <<>> =>
        LET want == C16_NonCommentLines(SplitLines(subs.playlist))
        IN  /\ Min(HLS_SEGMENT_LIMIT, 20) = 20
            /\ Len(subs.requested) <= 20
            /\ Len(subs.requested) <= Len(want)
            /\ \A k \in 1..Len(subs.requested) : subs.requested[k] = want[k]
            /\ pc /= "subs_seg" => Len(subs.requested) = Min(20, Len(want))

\* a playlist of more than 20 segments was resolved with 20 fetches
C16_Witness ==
    /\ pc = "subs_ret"
    /\ Len(C16_NonCommentLines(SplitLines(subs.playlist))) > 20
    /\ Len(subs.requested) = 20
    /\ Truthy(ret.val)

\* ------------------------------------------------------------------ C17
\* the scripted answer for segment k gives usable text
C17_Usable(k) ==
    LET r == ServedSegment(upstream.pattern, k)
    IN  r.kind = "ok" /\ r.status = 200 /\ ~IsBlank(_subtitle_to_plain(r.body))

\* the normalized texts of the usable segments among the first n, in order
RECURSIVE C17_Texts(_)
C17_Texts(n) ==
    IF n = 0 THEN <<>>
    ELSE IF C17_Usable(n)
    THEN Append(C17_Texts(n - 1), _subtitle_to_plain(ServedSegment(upstream.pattern, n).body))
    ELSE C17_Texts(n - 1)

\* C17: while a playlist is resolved, a segment whose fetch raises, answers
\* with a status other than 200 or normalizes to blank text is skipped and the
\* next segment is fetched; the playlist's result is the normalized texts of
\* the other segments joined by single spaces in playlist order; only when no
\* segment gave text the playlist gives no result, and the stage then goes on
\* to the next candidate (when its time check allows).
C17_FailedSegmentsAreSkipped ==
    (upstream.kind = "scripted" /\ subs.playlist /= <<>>) =>
        LET n     == Len(subs.requested)
            total == Min(20, upstream.segments)
            texts == C17_Texts(n)
        IN  /\ subs.collected = texts
            /\ n < total => pc = "subs_seg" /\ subs.seg = n + 1
            /\ (n = total /\ texts /= <<>>) =>
                  /\ pc = "subs_ret"
                  /\ ret.val = Some(C11_SpaceJoined(texts))
                  /\ subs.fetched = <<1>>
            /\ (n = total /\ texts = <<>>) =>
                  \/ pc = "subs_fetch" /\ subs.idx = 2
                  \/ Len(subs.fetched) >= 2
                  \/ /\ pc = "subs_ret"
                     /\ ~Truthy(ret.val)
                     /\ subs.elapsed * 5 > REQUEST_TIMEOUT * 4

\* a playlist was resolved to the texts of some of its segments, others
\* having been skipped
C17_Witness ==
    /\ upstream.kind = "scripted"
    /\ pc = "subs_ret"
    /\ Truthy(ret.val)
    /\ Len(subs.collected) >= 2
    /\ Len(subs.collected) < Len(subs.requested)

\* ------------------------------------------------------------------ C18
\* C18: for every 11-character id, the watch URL (with or without further
\* parameters), the shortened URL and a URL or string that embeds the bare id
\* all resolve to that id.
C18_EveryFormResolvesToItsId ==
    \A id \in VideoIds :
        (pc /= "start" /\ url \in UrlFormsOf(id)) => (result.kind /= "raised" /\ vid = id)

\* ------------------------------------------------------------------ C19
\* C19: extract_video_id returns the capture of the first of its matchers
\* (watch parameter or path, shortened domain, bare 11-character run) that
\* matches; when none matches the run ends with HTTP 400 'Invalid YouTube
\* URL.' and no acquisition stage has been invoked.
C19_FirstMatcherWinsElseInvalidUrl ==
    LET w == ReSearch(url, WatchPatAt)
        s == ReSearch(url, ShortPatAt)
        b == ReSearch(url, BarePatAt)
    IN  pc /= "start" =>
          IF w /= 0 THEN vid = Group1(url, w) /\ result.kind /= "raised"
          ELSE IF s /= 0 THEN vid = Group1(url, s) /\ result.kind /= "raised"
          ELSE IF b /= 0 THEN vid = Group1(url, b) /\ result.kind /= "raised"
          ELSE /\ result = Raised(400, <<"I","n","v","a","l","i","d"," ","Y","o","u","T","u","b","e"," ","U","R","L",".">>)
               /\ pc \in {"done", "responded"}
               /\ stages = <<>>
               /\ extractCalls = 0
               /\ api = ApiIdle /\ ext = ExtIdle /\ subs = SubsIdle

\* a URL in which no matcher matches was answered with the client error
C19_Witness ==
    /\ pc = "done"
    /\ url /= <<>>
    /\ ReSearch(url, BarePatAt) = 0
    /\ result = Raised(400, <<"I","n","v","a","l","i","d"," ","Y","o","u","T","u","b","e"," ","U","R","L",".">>)

\* ------------------------------------------------------------------ C20
\* the text the pipeline returned was built from the video's metadata
C20_FromMetadata == stages[Len(stages)].name \in {"meta", "final"}

\* C20: a successful /summarize/youtube response has metadata_only = true and
\* a warning exactly when the summarized text was derived from video metadata,
\* and metadata_only = false with a null warning when it came from captions
\* or subtitles.
C20_MetadataOnlyExactlyForMetadataText ==
    response.kind = "ok" =>
        /\ response.metadata_only <=> C20_FromMetadata
        /\ ~response.warning.isNone <=> C20_FromMetadata

\* ------------------------------------------------------------------ C21
\* the chunks of the call have been cut
C21_Chunked == pc \in {"sum_chunk", "sum_merge", "sum_ret"} /\ sum.chunks /= <<>>

\* C21: a text longer than the safe chunk size is split into at most 2
\* chunks, each at most 80000 characters long; the start offsets of consecutive
\* chunks differ by 80000 - 300, so consecutive chunks share exactly the 300
\* characters of the overlap; a text of 2.2 times the safe chunk size gives
\* exactly 2 chunks.
C21_AtMostTwoOverlappingChunks ==
    C21_Chunked =>
        /\ Len(sum.chunks) <= 2
        /\ \A k \in 1..Len(sum.chunks) : sum.chunks[k].len <= 80000
        /\ \A k \in 1..(Len(sum.chunks) - 1) :
             /\ sum.chunks[k + 1].from - sum.chunks[k].from = 80000 - 300
             /\ sum.chunks[k].from + sum.chunks[k].len - sum.chunks[k + 1].from = 300
        /\ 10 * sum.text.body = 22 * 80000 => Len(sum.chunks) = 2

\* a text of 2.2 times the safe chunk size has been cut in two
C21_Witness ==
    /\ C21_Chunked
    /\ 10 * sum.text.body = 22 * MAX_SAFE_CHUNK
    /\ sum.chunks = <<TextSlice(0, 80000), TextSlice(79700, 80000)>>

\* ------------------------------------------------------------------ C22
\* the backend call raised or returned no text
C22_NoText(answer) ==
    answer.kind \in {"raise", "none"} \/ Strip(answer.text) = <<>>

\* the texts of the chunk calls that returned text, in call order
RECURSIVE C22_Texts(_)
C22_Texts(calls) ==
    IF calls = <<>> THEN <<>>
    ELSE IF Head(calls).call /= "chunk" \/ C22_NoText(Head(calls).answer)
    THEN C22_Texts(Tail(calls))
    ELSE <<Strip(Head(calls).answer.text)>> \o C22_Texts(Tail(calls))

\* C22: a chunk whose backend call raises or returns empty text is dropped and
\* the remaining chunks are still processed; when no chunk yields a partial
\* summary the function returns the degraded summary of the first 1500
\* characters of the text, and does not raise.
C22_FailedChunksAreDropped ==
    C21_Chunked =>
        /\ sum.partials = C22_Texts(sum.calls)
        /\ pc /= "sum_chunk" =>
             \A k \in 1..Len(sum.chunks) : sum.calls[k].call = "chunk" /\ sum.calls[k].idx = k
        /\ pc = "sum_ret" /\ sum.partials = <<>> =>
             ret = RetValue(format_summary_output(
                       TextSlice(0, Min(1500, sum.text.body)), <<"s","h","o","r","t">>))

\* ------------------------------------------------------------------ C23
\* the positions of the merge calls among the calls made
C23_MergeCalls == {k \in 1..Len(sum.calls) : sum.calls[k].call = "merge"}

\* the function has returned after its chunk loop
C23_Returned == C21_Chunked /\ pc = "sum_ret" /\ ret.kind = "value"

\* C23: with at least two partial summaries exactly one merge call is made,
\* after all chunk calls; when the merge call raises or returns empty text the
\* result is the partial summaries concatenated in chunk order, and nothing is
\* raised; with exactly one partial summary no merge call is made.
C23_OneMergeElseConcatenation ==
    /\ C21_Chunked /\ pc = "sum_ret" => ret.kind = "value"
    /\ C23_Returned /\ Len(sum.partials) >= 2 =>
         /\ C23_MergeCalls = {Len(sum.calls)}
         /\ Len(sum.calls) = Len(sum.chunks) + 1
         /\ C22_NoText(sum.calls[Len(sum.calls)].answer) =>
              ret.val = format_summary_output(
                            Literal(Join(<<"\n","\n">>, sum.partials)), sum.summary_type)
    /\ C21_Chunked /\ Len(sum.partials) = 1 /\ pc /= "sum_chunk" => C23_MergeCalls = {}

\* ------------------------------------------------------------------ C26
\* C26: the four modes short, bullet, detailed and comprehensive are honoured,
\* each chunk being summarized with the prompt of the requested mode; only a
\* mode outside these four is replaced by short.
C26_FourModesHonoured ==
    C21_Chunked =>
        /\ sum.summary_type =
               IF NormalType(sum.requested)
                      \in {<<"s","h","o","r","t">>, <<"b","u","l","l","e","t">>, <<"d","e","t","a","i","l","e","d">>, <<"c","o","m","p","r","e","h","e","n","s","i","v","e">>}
               THEN NormalType(sum.requested)
               ELSE <<"s","h","o","r","t">>
        /\ \A k \in 1..Len(sum.calls) :
               sum.calls[k].call = "chunk" =>
                   sum.calls[k].prompt = ChunkPrompt(NormalType(sum.requested)).prompt

\* ------------------------------------------------------------------ C24
\* the known phrases in the order they are tested, each with its friendly message;
\* the phrases of `lowered` are looked for in the lowered message
C24_Rules ==
    << [exact |-> {<<"H","T","T","P"," ","E","r","r","o","r"," ","4","2","9">>, <<"T","o","o"," ","M","a","n","y"," ","R","e","q","u","e","s","t","s">>}, lowered |-> {},
        message |-> <<"Y","o","u","T","u","b","e"," ","i","s"," ","r","a","t","e","-","l","i","m","i","t","i","n","g"," ","r","e","q","u","e","s","t","s","."," ","P","l","e","a","s","e"," ","w","a","i","t"," ","a"," ","f","e","w"," ","m","i","n","u","t","e","s"," ","a","n","d"," ","t","r","y"," ","a","g","a","i","n",".">>],
       [exact |-> {}, lowered |-> {<<"s","i","g","n"," ","i","n">>, <<"b","o","t">>},
        message |-> <<"Y","o","u","T","u","b","e"," ","d","e","t","e","c","t","e","d"," ","a","u","t","o","m","a","t","e","d"," ","a","c","c","e","s","s","."," ","T","h","i","s"," ","u","s","u","a","l","l","y"," ","r","e","s","o","l","v","e","s"," ","i","t","s","e","l","f"," ","a","f","t","e","r"," ","a"," ","f","e","w"," ","m","i","n","u","t","e","s","."," ","T","r","y"," ","a","g","a","i","n"," ","s","h","o","r","t","l","y",","," ","o","r"," ","u","s","e"," ","a"," ","d","i","f","f","e","r","e","n","t"," ","v","i","d","e","o",".">>],
       [exact |-> {<<"P","r","i","v","a","t","e"," ","v","i","d","e","o">>}, lowered |-> {<<"u","n","a","v","a","i","l","a","b","l","e">>},
        message |-> <<"T","h","i","s"," ","v","i","d","e","o"," ","i","s"," ","p","r","i","v","a","t","e",","," ","u","n","a","v","a","i","l","a","b","l","e",","," ","o","r"," ","a","g","e","-","r","e","s","t","r","i","c","t","e","d"," ","a","n","d"," ","c","a","n","n","o","t"," ","b","e"," ","a","c","c","e","s","s","e","d",".">>],
       [exact |-> {<<"V","i","d","e","o"," ","u","n","a","v","a","i","l","a","b","l","e">>}, lowered |-> {},
        message |-> <<"T","h","i","s"," ","v","i","d","e","o"," ","i","s"," ","n","o","t"," ","a","v","a","i","l","a","b","l","e","."," ","I","t"," ","m","a","y"," ","h","a","v","e"," ","b","e","e","n"," ","d","e","l","e","t","e","d"," ","o","r"," ","m","a","d","e"," ","p","r","i","v","a","t","e",".">>],
       [exact |-> {<<"A","l","l"," ","e","x","t","r","a","c","t","i","o","n"," ","s","t","r","a","t","e","g","i","e","s"," ","f","a","i","l","e","d">>}, lowered |-> {},
        message |-> <<"U","n","a","b","l","e"," ","t","o"," ","a","c","c","e","s","s"," ","t","h","i","s"," ","v","i","d","e","o","."," ","Y","o","u","T","u","b","e"," ","m","a","y"," ","b","e"," ","b","l","o","c","k","i","n","g"," ","a","u","t","o","m","a","t","e","d"," ","r","e","q","u","e","s","t","s","."," ","P","l","e","a","s","e"," ","t","r","y"," ","a","g","a","i","n"," ","i","n"," ","a"," ","f","e","w"," ","m","i","n","u","t","e","s"," ","o","r"," ","u","s","e"," ","a"," ","d","i","f","f","e","r","e","n","t"," ","v","i","d","e","o",".">>] >>

C24_Matching(msg) ==
    {k \in 1..Len(C24_Rules) :
        \/ \E p \in C24_Rules[k].exact : Contains(msg, p)
        \/ \E p \in C24_Rules[k].lowered : Contains(Lower(msg), p)}

C24_FirstMatch(msg) ==
    IF C24_Matching(msg) = {} THEN msg
    ELSE C24_Rules[CHOOSE k \in C24_Matching(msg) : \A j \in C24_Matching(msg) : k <= j].message

\* C24: an exception other than HTTPException caught by the endpoint is
\* answered with HTTP 500 and the friendly message of the first known phrase
\* the message matches, in the order rate limiting, bot detection,
\* private/unavailable, 'Video unavailable', 'All extraction strategies
\* failed', or with the raw message when no phrase matches; an HTTPException
\* is answered as raised, untranslated.
C24_FirstMatchingPhraseElseRaw ==
    pc = "responded" =>
        /\ result.kind = "raised" =>
               response = HttpError(result.status_code, result.detail)
        /\ result.kind = "returned" /\ ret.kind = "raise" =>
               response = HttpError(500, C24_FirstMatch(ret.msg))

\* a message with the phrases of two rules was answered with the earlier rule's
\* message
C24_Witness ==
    /\ pc = "responded"
    /\ ret = RetRaise(<<"P","r","i","v","a","t","e"," ","v","i","d","e","o","."," ","S","i","g","n"," ","i","n"," ","i","f"," ","y","o","u"," ","h","a","v","e"," ","a","c","c","e","s","s">>)
    /\ response = HttpError(500, C24_Rules[2].message)

\* ------------------------------------------------------------------ C25
\* the segment texts of the events, in order
RECURSIVE C25_SegmentTexts(_)
C25_SegmentTexts(events) ==
    IF events = <<>> THEN <<>> ELSE Head(events) \o C25_SegmentTexts(Tail(events))

\* those of the texts that are not blank, stripped
RECURSIVE C25_NonEmpty(_)
C25_NonEmpty(texts) ==
    IF texts = <<>> THEN <<>>
    ELSE IF Strip(Head(texts)) = <<>> THEN C25_NonEmpty(Tail(texts))
    ELSE <<Strip(Head(texts))>> \o C25_NonEmpty(Tail(texts))

\* a cue index, a marker line or a cue-timing line
C25_IsMarkup(ln) ==
    \/ ln /= <<>> /\ \A i \in 1..Len(ln) : ln[i] \in Digits
    \/ HasLit(ln, 1, <<"W","E","B","V","T","T">>)
    \/ Contains(ln, <<"-","-",">">>)

\* the input carries no caption text
C25_NoCaptionText(c) ==
    \/ Strip(c.raw) = <<>>
    \/ c.json = "events" /\ C25_NonEmpty(C25_SegmentTexts(c.events)) = <<>>
    \/ c.json = "error"
         /\ \A k \in 1..Len(SplitLines(Strip(c.raw))) :
                C25_IsMarkup(SplitLines(Strip(c.raw))[k])

\* C25: _subtitle_to_plain returns the empty string whenever the input
\* carries no caption text (an empty or blank input, timed-text JSON whose
\* events hold no non-empty segment text, or a text of cue indices, marker
\* lines and cue-timing lines only); for timed-text JSON with at least one
\* non-empty segment text it returns exactly those texts, in order, joined by
\* single spaces.
C25_EmptyWithoutCaptionText ==
    pc = "plain_ret" =>
        /\ C25_NoCaptionText(upstream.body) => ret.val = <<>>
        /\ upstream.body.json = "events"
              /\ C25_NonEmpty(C25_SegmentTexts(upstream.body.events)) /= <<>> =>
               ret.val = Join(<<" ">>, C25_NonEmpty(C25_SegmentTexts(upstream.body.events)))

\* ------------------------------------------------------------------ C27
\* the field of the info is missing, None or the empty string
C27_Empty(field) == ~Truthy(Get(field, Some(<<>>)))

\* C27: once the first three stages gave no text, the pipeline raises the
\* exhaustion error exactly when the extractor call of the final stage
\* raised, and whenever that call returned info it returns the labelled
\* metadata block with the disclaimer; the final stage is started only when
\* the extractor call of the title/description stage raised or returned an
\* empty title and an empty description.
C27_ExhaustionOnlyWhenFinalExtractorFails ==
    [][ /\ pc = "extract_ret" /\ ext.caller = "final" =>
             /\ result' = Raised(400, ExhaustedDetail) <=> ret.kind = "raise"
             /\ ret.kind = "info" =>
                    /\ result'.kind = "returned"
                    /\ HasLit(result'.text, 1, <<"V","i","d","e","o"," ","T","i","t","l","e",":"," ">>)
                    /\ Contains(result'.text, MetadataMarker)
        /\ pc = "extract_ret" /\ ext.caller = "meta" /\ ext'.caller = "final" =>
             \/ ret.kind = "raise"
             \/ C27_Empty(ret.info.title) /\ C27_Empty(ret.info.description) ]_vars

\* ------------------------------------------------------------------ C28
\* C28: no error the upstream raises during transcript acquisition reaches the
\* endpoint's translation into friendly messages: an acquisition failure is
\* answered with HTTP 400 and the invalid-URL or the exhaustion message, and an
\* HTTP 500 answer comes only from an exception raised while summarizing.
C28_AcquisitionFailuresAreClientErrors ==
    /\ result.kind \in {"running", "returned", "raised"}
    /\ result.kind = "raised" =>
           result \in {Raised(400, <<"I","n","v","a","l","i","d"," ","Y","o","u","T","u","b","e"," ","U","R","L",".">>), Raised(400, ExhaustedDetail)}
    /\ pc = "responded" =>
           /\ result.kind = "raised" => response = HttpError(400, result.detail)
           /\ response.kind = "error" /\ response.status_code = 400 =>
                  response.detail \in {<<"I","n","v","a","l","i","d"," ","Y","o","u","T","u","b","e"," ","U","R","L",".">>, ExhaustedDetail}
           /\ response.kind = "error" /\ response.status_code = 500 =>
                  result.kind = "returned" /\ ret.kind = "raise"

\* the extractor raised a private/unavailable error in a run that was answered
\* with the exhaustion message
C28_Witness ==
    /\ pc = "responded"
    /\ permanent
    /\ response = HttpError(400, ExhaustedDetail)

\* ------------------------------------------------------------------ C29
\* how far the run has come: the place in the orchestrator, then the place in
\* the loop of the stage
C29_Place ==
    IF pc = "start" THEN 0
    ELSE IF pc = "api_list" THEN 1
    ELSE IF pc = "api_fetch" THEN 2
    ELSE IF pc = "api_ret" THEN 3
    ELSE IF pc \in {"extract", "extract_ret"} /\ ext.caller = "subs" THEN 4
    ELSE IF pc \in {"subs_fetch", "subs_seg"} THEN 5
    ELSE IF pc = "subs_ret" THEN 6
    ELSE IF pc \in {"extract", "extract_ret"} /\ ext.caller = "meta" THEN 7
    ELSE IF pc \in {"extract", "extract_ret"} /\ ext.caller = "final" THEN 8
    ELSE IF pc = "done" THEN 9
    ELSE 10

C29_Progress ==
    1000 * C29_Place
    + (IF pc = "api_fetch" THEN api.idx ELSE 0)
    + (IF pc = "extract" THEN Len(ext.tried) ELSE 0)
    + (IF pc = "extract_ret" THEN 4 ELSE 0)
    + (IF pc \in {"subs_fetch", "subs_seg"} THEN 100 * subs.idx + subs.seg ELSE 0)

\* the upstream calls made are within their limits
C29_CallsWithinLimits ==
    /\ Len(api.fetched) <= 4
    /\ extractCalls <= 3
    /\ extractCalls = Cardinality({k \in 1..Len(stages) :
                                      stages[k].name \in {"subs", "meta", "final"}})
    /\ Len(ext.tried) <= 3
    /\ Len(subs.fetched) <= 3
    /\ Len(subs.requested) <= 20
    /\ \A i, j \in 1..Len(stages) : i < j => stages[i].name /= stages[j].name

====
